---- MODULE Spec2Model ----
(***************************************************************************)
(* Model of mihaaru_translate_bot.py: the two Telethon event handlers      *)
(* (handle_new_post, manual_translate_handler), the helpers they call      *)
(* (fetch_article_text, translate_text) and the splitting and delivery of  *)
(* send_telegram_message_telethon.                                         *)
(*                                                                         *)
(* Strings are kept run-length encoded: a text is a sequence of runs       *)
(* [c |-> character, n |-> count], adjacent runs carrying different        *)
(* characters.  Lengths, slices, rfind and concatenation are computed on   *)
(* that encoding, so MAX_MESSAGE_LENGTH keeps its value of 4000.           *)
(***************************************************************************)
EXTENDS Integers, Sequences, FiniteSets, TLC

VARIABLES
    config,       \* TRANSLATION_PROVIDER and the API keys read at import
    handler,      \* which coroutine runs: "post", "command" or "send" (the bare send function)
    message,      \* event.message.text of the triggering event
    chat,         \* event.chat_id
    pc,           \* the await the coroutine is suspended at
    status,       \* "running", "returned" (normal return) or "raised" (exception left the handler)
    url,          \* urls[0]
    response,     \* history: the HTTP response session.get met
    dhivehi_title,           \* title returned by fetch_article_text (None or its length)
    article_text_dhivehi,    \* body returned by fetch_article_text (None or its length)
    translated_title_english,
    translation_english_body,
    entity,       \* destination handed to send_telegram_message_telethon
    text,         \* text handed to send_telegram_message_telethon
    parts,        \* parts list built by the splitting loop
    cuts,         \* history: how each part ended ("newline", "hard" or "rest")
    i,            \* index of the enumerate loop over parts
    trace,        \* history: the external calls made so far, in order
    dhivehi_text, \* translate_text run on its own: its text argument
    is_title,     \* translate_text run on its own: its is_title argument
    translation,  \* translate_text run on its own: the value it returned
    client,       \* main: the TelegramClient ("none" before it is constructed)
    registered,   \* main: the handlers registered with client.on
    soup,         \* fetch_article_text run on its own: the parsed page
    article_texts,        \* the texts the walk from the marker comment collected
    extracted_body_text,
    final_body_text,
    other         \* the locals of a second handler invocation, suspended at an await

vars == <<config, handler, message, chat, pc, status, url, response, dhivehi_title, article_text_dhivehi,
          translated_title_english, translation_english_body, entity, text, parts,
          cuts, i, trace, dhivehi_text, is_title, translation, client, registered,
          soup, article_texts, extracted_body_text, final_body_text, other>>

\* the arguments and the result of translate_text when it is run on its own
translateVars == <<dhivehi_text, is_title, translation>>

\* the client main() builds and the handlers it registers
mainVars == <<client, registered>>

\* the page and the locals of the extraction in fetch_article_text
soupVars == <<soup, article_texts, extracted_body_text, final_body_text>>

\* what no step of a handler or of send_telegram_message_telethon assigns
evVars == <<config, handler, message, chat, translateVars, mainVars, soupVars, other>>
fetchVars == <<response, dhivehi_title, article_text_dhivehi>>
transVars == <<translated_title_english, translation_english_body>>
loopVars == <<parts, cuts, i>>

\* Python's None, where a string may stand: a value no string is equal to
\* (the encoding of a string holds no run of 0 characters)
None == <<[c |-> "None", n |-> 0]>>

\* not x, for x a string or None
Truthy(x) == x # None /\ x # <<>>

NoChat == "nochat"
NoChar == ""

Max(a, b) == IF a >= b THEN a ELSE b
Min(a, b) == IF a <= b THEN a ELSE b

-----------------------------------------------------------------------------
(* Run-length encoded strings *)

R(c, n) == [c |-> c, n |-> n]
NL == "\n"

RECURSIVE TLen(_)
\* len(t)
TLen(t) == IF t = <<>> THEN 0 ELSE t[1].n + TLen(Tail(t))

RECURSIVE NormInto(_, _)
NormInto(acc, t) ==
    IF t = <<>> THEN acc
    ELSE IF t[1].n = 0 THEN NormInto(acc, Tail(t))
    ELSE IF acc # <<>> /\ acc[Len(acc)].c = t[1].c
    THEN NormInto([acc EXCEPT ![Len(acc)].n = @ + t[1].n], Tail(t))
    ELSE NormInto(Append(acc, t[1]), Tail(t))

\* canonical encoding: no empty run, no two adjacent runs of the same character
Norm(t) == NormInto(<<>>, t)

\* a + b
TCat(a, b) == Norm(a \o b)

RECURSIVE TDrop(_, _)
\* t[k:]
TDrop(t, k) ==
    IF k <= 0 \/ t = <<>> THEN t
    ELSE IF t[1].n <= k THEN TDrop(Tail(t), k - t[1].n)
    ELSE <<R(t[1].c, t[1].n - k)>> \o Tail(t)

RECURSIVE TTake(_, _)
\* t[:k]
TTake(t, k) ==
    IF k <= 0 \/ t = <<>> THEN <<>>
    ELSE IF t[1].n <= k THEN <<t[1]>> \o TTake(Tail(t), k - t[1].n)
    ELSE <<R(t[1].c, k)>>

\* t[s:e] for 0 <= s
TSlice(t, s, e) == TTake(TDrop(t, s), e - s)

RECURSIVE RFindRuns(_, _, _, _, _, _)
\* runs k, k-1, ... 1, the run k ending before offset stop
RFindRuns(t, c, s, e, k, stop) ==
    IF k < 1 THEN -1
    ELSE IF Max(stop - t[k].n, s) < Min(stop, e) /\ t[k].c = c THEN Min(stop, e) - 1
    ELSE RFindRuns(t, c, s, e, k - 1, stop - t[k].n)

RECURSIVE FindRuns(_, _, _, _, _, _)
\* runs k, k+1, ..., the run k starting at offset start
FindRuns(t, c, s, e, k, start) ==
    IF k > Len(t) THEN -1
    ELSE IF Max(start, s) < Min(start + t[k].n, e) /\ t[k].c = c THEN Max(start, s)
    ELSE FindRuns(t, c, s, e, k + 1, start + t[k].n)

\* find in the place of rfind: the lowest index in [s, e) holding c, or -1
RFind_Lowest(t, c, s, e) == FindRuns(t, c, s, e, 1, 0)

\* t.rfind(c, s, e): the highest index in [s, e) holding c, or -1
RFind(t, c, s, e) == RFindRuns(t, c, s, e, Len(t), TLen(t))

\* t[p], or NoChar past the end
CharAt(t, p) == LET d == TDrop(t, p) IN IF d = <<>> THEN NoChar ELSE d[1].c

\* the string of the given characters
Str(chars) == Norm([k \in 1..Len(chars) |-> R(chars[k], 1)])

RECURSIVE Repeat(_, _)
\* r * n
Repeat(r, n) == IF n <= 0 THEN <<>> ELSE r \o Repeat(r, n - 1)

RECURSIVE ReplaceRuns(_, _, _)
ReplaceRuns(t, c, r) ==
    IF t = <<>> THEN <<>>
    ELSE (IF t[1].c = c THEN Repeat(r, t[1].n) ELSE <<t[1]>>) \o ReplaceRuns(Tail(t), c, r)

\* t.replace(c, r), c a single character
TReplace(t, c, r) == Norm(ReplaceRuns(t, c, r))

\* the characters \s matches and str.strip() removes
IsSpace(c) == c \in {" ", NL, "\t"}

RECURSIVE LStrip(_)
LStrip(t) == IF t # <<>> /\ IsSpace(t[1].c) THEN LStrip(Tail(t)) ELSE t

RECURSIVE RStrip(_)
RStrip(t) ==
    IF t # <<>> /\ IsSpace(t[Len(t)].c) THEN RStrip(SubSeq(t, 1, Len(t) - 1)) ELSE t

\* t.strip()
TStrip(t) == RStrip(LStrip(t))

\* whether t[p:] starts with the characters of lit
StartsWith(t, p, chars) == \A k \in 1..Len(chars) : CharAt(t, p + k - 1) = chars[k]

RECURSIVE NonSpaceEnd(_, _)
\* the end of the run of non-whitespace characters holding position p
NonSpaceEnd(t, p) ==
    IF CharAt(t, p) = NoChar \/ IsSpace(CharAt(t, p)) THEN p ELSE NonSpaceEnd(t, p + 1)

-----------------------------------------------------------------------------
(* Configuration read at import, and the check main() makes of it *)

\* common_vars = [TELEGRAM_API_ID, TELEGRAM_API_HASH, MIHAARU_CHANNEL_ENV,
\* TARGET_CHANNEL_ENV], each entry set (TRUE) or missing
AllConfigs == [provider : {"openai", "anthropic", "deepl"},
               openai_key : BOOLEAN, anthropic_key : BOOLEAN,
               common_vars : [1..4 -> BOOLEAN]]

\* openai_client is set only for provider 'openai' with its key
openai_client(cfg) == cfg.provider = "openai" /\ cfg.openai_key

\* anthropic_client is set only for provider 'anthropic' with its key
anthropic_client(cfg) == cfg.provider = "anthropic" /\ cfg.anthropic_key

\* any one key taken for the key of the selected provider
provider_specific_vars_ok_AnyKey(cfg) == cfg.openai_key \/ cfg.anthropic_key

provider_specific_vars_ok(cfg) ==
    \/ cfg.provider = "openai" /\ cfg.openai_key
    \/ cfg.provider = "anthropic" /\ cfg.anthropic_key

\* main() goes past its environment check and registers the handlers
MainProceeds(cfg) ==
    (\A k \in 1..4 : cfg.common_vars[k]) /\ provider_specific_vars_ok(cfg)

\* the configurations under which a handler can run at all
RunningConfigs == { cfg \in AllConfigs : MainProceeds(cfg) }

-----------------------------------------------------------------------------
(* URL_REGEX and the command pattern *)

HTTPS == <<"h", "t", "t", "p", "s", ":", "/", "/">>
HTTP == <<"h", "t", "t", "p", ":", "/", "/">>

\* the end of the match of https?://\S+ starting at p, or -1
UrlMatchEnd(t, p) ==
    LET q == IF StartsWith(t, p, HTTPS) THEN p + Len(HTTPS)
             ELSE IF StartsWith(t, p, HTTP) THEN p + Len(HTTP)
             ELSE -1
    IN  IF q = -1 THEN -1
        ELSE IF NonSpaceEnd(t, q) = q THEN -1
        ELSE NonSpaceEnd(t, q)

RECURSIVE FindAllFrom(_, _)
FindAllFrom(t, p) ==
    IF p >= TLen(t) THEN <<>>
    ELSE LET e == UrlMatchEnd(t, p) IN
         IF e # -1 THEN <<TSlice(t, p, e)>> \o FindAllFrom(t, e)
         ELSE FindAllFrom(t, p + 1)

\* URL_REGEX.findall(t)
FindAll(t) == FindAllFrom(t, 0)

COMMAND == <<"/", "t", "r", "a", "n", "s", "l", "a", "t", "e">>

RECURSIVE SpaceEnd(_, _)
\* the end of the run of whitespace starting at p
SpaceEnd(t, p) == IF IsSpace(CharAt(t, p)) THEN SpaceEnd(t, p + 1) ELSE p

RECURSIVE LineEnd(_, _)
\* the end of the line holding position p
LineEnd(t, p) ==
    IF CharAt(t, p) = NoChar \/ CharAt(t, p) = NL THEN p ELSE LineEnd(t, p + 1)

\* group(1) of r'/translate(?:\s+|$)(.*)' matched at the start of t, or None
\* when the pattern does not match
PatternGroup(t) ==
    IF ~StartsWith(t, 0, COMMAND) THEN None
    ELSE LET p == Len(COMMAND) IN
         IF IsSpace(CharAt(t, p))
         THEN LET q == SpaceEnd(t, p) IN TSlice(t, q, LineEnd(t, q))
         ELSE IF CharAt(t, p) = NoChar THEN <<>>
         ELSE None

-----------------------------------------------------------------------------
(* fetch_article_text *)

\* what session.get and the page give: an exception, or a status and the
\* title and body the extraction finds in the HTML
NoResponse == [raises |-> FALSE, status |-> 0, title |-> None, body |-> None]

\* Dhivehi text of n characters
Dhivehi(n) == Norm(<<R("d", n)>>)

HTTP_OK == 200
HttpStatuses == {HTTP_OK, 404}
BodyLens == {0, 29, 30, 49, 50}

PageTitles == {None, <<>>, Dhivehi(12)}
PageBodies == {None} \cup { Dhivehi(n) : n \in BodyLens }

Responses ==
    {[NoResponse EXCEPT !.raises = TRUE]} \cup
    [raises : {FALSE}, status : HttpStatuses,
     title : PageTitles, body : PageBodies]

\* only server errors rejected
FetchRejects_ServerErrors(st) == st >= 500

\* response.status != 200
FetchRejects(st) == st # HTTP_OK

\* a result given up as soon as either half is missing
NothingFound_Either(title, body) == ~Truthy(title) \/ ~Truthy(body)

\* if not dhivehi_title and not final_body_text:
NothingFound(title, body) == ~Truthy(title) /\ ~Truthy(body)

\* the pair fetch_article_text returns
fetch_article_text(resp) ==
    IF resp.raises THEN <<None, None>>
    ELSE IF FetchRejects(resp.status) THEN <<None, None>>
    ELSE IF NothingFound(resp.title, resp.body) THEN <<None, None>>
    ELSE <<resp.title, resp.body>>

-----------------------------------------------------------------------------
(* fetch_article_text: the parsed page and the extraction of title and body *)

\* The page after the parse: the h1 elements (each inside a <header>, which
\* the removal of non-content tags takes out before the body is extracted),
\* the text of <title> in <head>, whether there is a <body> element, and the
\* comments and elements left after the removal, in document order.  A node
\* of depth 1 lies inside the nearest preceding node of depth 0; text is the
\* string a <p> or a comment holds.
Node(name, class, txt, depth) ==
    [name |-> name, class |-> class, text |-> txt, depth |-> depth]

\* str.lower(), for the letters the comments of the pages use
LowerChar(c) == IF c = "A" THEN "a" ELSE IF c = "B" THEN "b" ELSE c
Lower(t) == Norm([k \in 1..Len(t) |-> R(LowerChar(t[k].c), t[k].n)])

\* whether the characters occur in t
Contains(t, chars) == \E p \in 0..TLen(t) : StartsWith(t, p, chars)

ARTICLE_BODY == <<"a", "r", "t", "i", "c", "l", "e", " ", "b", "o", "d", "y">>

\* isinstance(text, Comment) and "article body" in text.lower()
IsMarker(n) == n.name = "comment" /\ Contains(Lower(n.text), ARTICLE_BODY)

\* soup.find(...): the first of the indices found, or 0 when there is none
FirstOf(found) ==
    IF found = {} THEN 0 ELSE CHOOSE k \in found : \A j \in found : k <= j

TITLE_CLASSES == {"text-waheed", "text-black-two"}
TITLE_CLASSES_FALLBACK == {"text-40px", "text-waheed"}

\* title_tag: the first h1 with both classes of the first variant, else the
\* first h1 with both classes of the second
TitleTag(h1s) ==
    LET first == FirstOf({k \in 1..Len(h1s) : TITLE_CLASSES \subseteq h1s[k].class}) IN
    IF first # 0 THEN first
    ELSE FirstOf({k \in 1..Len(h1s) : TITLE_CLASSES_FALLBACK \subseteq h1s[k].class})

\* dhivehi_title = title_tag.get_text(strip=True), or None without a title_tag
ExtractTitle(h1s) ==
    IF TitleTag(h1s) = 0 THEN None ELSE TStrip(h1s[TitleTag(h1s)].text)

\* the last node of the subtree of node k
SubtreeEnd(nodes, k) ==
    CHOOSE j \in k..Len(nodes) :
        /\ \A m \in (k + 1)..j : nodes[m].depth > nodes[k].depth
        /\ j < Len(nodes) => nodes[j + 1].depth <= nodes[k].depth

RECURSIVE StrippedStrings(_, _, _)
\* the strings of the nodes lo..hi, comments left out, each stripped, the
\* empty ones dropped
StrippedStrings(nodes, lo, hi) ==
    IF lo > hi THEN <<>>
    ELSE (IF nodes[lo].name # "comment" /\ TStrip(nodes[lo].text) # <<>>
          THEN <<TStrip(nodes[lo].text)>> ELSE <<>>)
         \o StrippedStrings(nodes, lo + 1, hi)

RECURSIVE JoinWith(_, _)
\* sep.join(strings)
JoinWith(strings, sep) ==
    IF strings = <<>> THEN <<>>
    ELSE IF Len(strings) = 1 THEN strings[1]
    ELSE TCat(TCat(strings[1], sep), JoinWith(Tail(strings), sep))

\* element.get_text(separator='\n', strip=True) of node k
GetText(nodes, k) ==
    JoinWith(StrippedStrings(nodes, k, SubtreeEnd(nodes, k)), <<R(NL, 1)>>)

\* the element the walk stops at
IsDivider(n) ==
    /\ n.name = "div"
    /\ "hidden" \in n.class
    /\ "lg:block" \in n.class
    /\ \E cls \in {"m1-10", "ml-10"} : cls \in n.class

\* every paragraph collected
AcceptedParagraph_AnyP(n) == n.name = "p"

\* a <p> whose text the walk collects
AcceptedParagraph(n) ==
    /\ n.name = "p"
    /\ {"text-19px", "leading-loose"} \subseteq n.class
    /\ \/ "text-faseyha" \in n.class
       \/ ("max-w-3xl" \in n.class /\ "text-black-two" \in n.class)

RECURSIVE WalkFrom(_, _, _)
\* for element in article_body_comment.find_all_next(), from node k on:
\* the texts appended to article_texts
WalkFrom(nodes, k, acc) ==
    IF k > Len(nodes) THEN acc
    ELSE IF nodes[k].name = "comment" THEN WalkFrom(nodes, k + 1, acc)
    ELSE IF IsDivider(nodes[k]) THEN acc
    ELSE IF AcceptedParagraph(nodes[k])
    THEN WalkFrom(nodes, k + 1, Append(acc, GetText(nodes, k)))
    ELSE WalkFrom(nodes, k + 1, acc)

\* article_body_comment: the index of the first marker comment, or 0
MarkerIndex(nodes) == FirstOf({k \in 1..Len(nodes) : IsMarker(nodes[k])})

\* article_texts after the walk
MarkerWalk(nodes) ==
    IF MarkerIndex(nodes) = 0 THEN <<>>
    ELSE WalkFrom(nodes, MarkerIndex(nodes) + 1, <<>>)

\* "\n\n".join(article_texts)
JoinParagraphs(texts) == JoinWith(texts, <<R(NL, 2)>>)

\* article_tag: the index of the first <article>, or 0
ArticleTag(nodes) == FirstOf({k \in 1..Len(nodes) : nodes[k].name = "article"})

\* soup.body.get_text(...) if soup.body else soup.get_text(...)
BodyText(page) ==
    IF page.body
    THEN JoinWith(StrippedStrings(page.nodes, 1, Len(page.nodes)), <<R(NL, 1)>>)
    ELSE JoinWith(StrippedStrings(<<Node("title", {}, page.head, 0)>> \o page.nodes,
                                  1, Len(page.nodes) + 1), <<R(NL, 1)>>)

\* extracted_body_text when the walk gave nothing: the text of the first
\* <article> when there is one, else the text of the body
Fallback(page) ==
    IF ArticleTag(page.nodes) # 0
    THEN GetText(page.nodes, ArticleTag(page.nodes))
    ELSE BodyText(page)

RECURSIVE WsEnd(_, _)
\* the last run of the stretch of whitespace that starts with run k
WsEnd(t, k) == IF k < Len(t) /\ IsSpace(t[k + 1].c) THEN WsEnd(t, k + 1) ELSE k

RECURSIVE Newlines(_, _, _)
\* the number of newlines in the runs lo..hi
Newlines(t, lo, hi) ==
    IF lo > hi THEN 0
    ELSE (IF t[lo].c = NL THEN t[lo].n ELSE 0) + Newlines(t, lo + 1, hi)

RECURSIVE CollapseFrom(_, _, _)
CollapseFrom(t, k, acc) ==
    IF k > Len(t) THEN acc
    ELSE IF IsSpace(t[k].c)
    THEN CollapseFrom(t, WsEnd(t, k) + 1,
                      IF Newlines(t, k, WsEnd(t, k)) >= 3
                      THEN Append(acc, R(NL, 2))
                      ELSE acc \o SubSeq(t, k, WsEnd(t, k)))
    ELSE CollapseFrom(t, k + 1, Append(acc, t[k]))

\* re.sub(r'(\s*\n\s*){3,}', '\n\n', t): every stretch of whitespace holding
\* three newlines or more becomes one blank line
CollapseBlankLines(t) == Norm(CollapseFrom(t, 1, <<>>))

\* final_body_text
FinalBody(extracted) ==
    IF extracted = <<>> THEN None ELSE TStrip(CollapseBlankLines(extracted))

-----------------------------------------------------------------------------
(* translate_text *)

\* what the provider call gives: an exception, a response without the
\* expected fields, or a response carrying a text
ProviderTexts ==
    { Str(<<" ", " ", "\n">>),
      Str(<<" ", "o", "k", "\n">>),
      <<R("x", 3950)>>,
      <<R("x", 3000), R(NL, 1), R("y", 3000), R(NL, 2), R("z", 2000)>> }

ProviderReplies ==
    {[kind |-> "error", content |-> <<>>], [kind |-> "malformed", content |-> <<>>]}
    \cup [kind : {"text"}, content : ProviderTexts]

TITLE_MAX_TOKENS == 1000
BODY_MAX_TOKENS == 3000

\* max_tokens=1000 if is_title else 3000
MaxTokens(title) == IF title THEN TITLE_MAX_TOKENS ELSE BODY_MAX_TOKENS

\* a malformed response read as if it carried an empty text
ProviderResult_MalformedAsText(reply) ==
    IF reply.kind = "error" THEN None ELSE TStrip(reply.content)

\* the value the try block yields: the stripped text, or None from the except clause
ProviderResult(reply) == IF reply.kind = "text" THEN TStrip(reply.content) ELSE None

\* only None counted as no text
EmptyInput_NoneOnly(txt) == txt = None

\* if not dhivehi_text:
EmptyInput(txt) == ~Truthy(txt)

\* "except Exception" catches what the provider call raises and what reading
\* choices[0].message.content / content[0].text of a malformed response raises
Caught(reply) == reply.kind \in {"error", "malformed"}

NoCall == [called |-> FALSE, provider |-> "", outcome |-> "", ret |-> None, raised |-> FALSE]

\* the try block of one provider: the call, the response read, the except clause
ProviderCall(provider, reply) ==
    [called |-> TRUE, provider |-> provider, outcome |-> reply.kind,
     ret |-> ProviderResult(reply),
     raised |-> (reply.kind # "text" /\ ~Caught(reply))]

\* translate_text(txt, title): whether a provider was called, which one, the
\* value returned, and whether an exception left the function
translate_text(cfg, txt, title, reply) ==
    IF EmptyInput(txt) THEN NoCall
    ELSE IF cfg.provider = "openai"
    THEN IF ~openai_client(cfg) THEN NoCall ELSE ProviderCall("openai", reply)
    ELSE IF cfg.provider = "anthropic"
    THEN IF ~anthropic_client(cfg) THEN NoCall ELSE ProviderCall("anthropic", reply)
    ELSE NoCall

-----------------------------------------------------------------------------
(* The message the handlers build *)

B_OPEN == Str(<<"<", "b", ">">>)
B_CLOSE == Str(<<"<", "/", "b", ">", "\n", "\n">>)
BLANK_LINE == <<R(NL, 2)>>
A_OPEN == Str(<<"<", "a", " ", "h", "r", "e", "f", "=", "\"">>)
A_CLOSE == Str(<<"\"", ">", "O", "r", "i", "g", "i", "n", "a", "l", " ", "A", "r", "t", "i", "c", "l", "e", "<", "/", "a", ">">>)

\* the title line added without the test: None is formatted as "None"
TitlePrefix_Unguarded(tt) ==
    TCat(TCat(B_OPEN, IF tt = None THEN Str(<<"N", "o", "n", "e">>) ELSE tt), B_CLOSE)

\* if translated_title_english: message_to_send += f"<b>{...}</b>\n\n"
TitlePrefix(tt) == IF Truthy(tt) THEN TCat(TCat(B_OPEN, tt), B_CLOSE) ELSE <<>>

\* url.replace("&", "&amp;").replace("<", "&lt;").replace(">", "&gt;")
EscapeUrl(u) ==
    TReplace(TReplace(TReplace(u, "&", Str(<<"&", "a", "m", "p", ";">>)), "<", Str(<<"&", "l", "t", ";">>)), ">", Str(<<"&", "g", "t", ";">>))

\* message_to_send
FormatMessage(tt, tb, u) ==
    TCat(TCat(TitlePrefix(tt), TCat(tb, BLANK_LINE)),
         TCat(TCat(A_OPEN, EscapeUrl(u)), A_CLOSE))

-----------------------------------------------------------------------------
(* send_telegram_message_telethon: the splitting loop *)

MAX_MESSAGE_LENGTH == 4000

\* the length test with the boundary left out
FitsOneMessage_Strict(t) == TLen(t) < MAX_MESSAGE_LENGTH

\* len(text) <= MAX_MESSAGE_LENGTH
FitsOneMessage(t) == TLen(t) <= MAX_MESSAGE_LENGTH

\* the test without split_at > current_pos
SplitsAtNewline_AnyFound(split_at, current_pos) == split_at # -1

\* split_at != -1 and split_at > current_pos
SplitsAtNewline(split_at, current_pos) == split_at # -1 /\ split_at > current_pos

\* the next part starting on the newline instead of after it
AfterNewline_Keep(split_at) == split_at

\* current_pos = split_at + 1
AfterNewline(split_at) == split_at + 1

RECURSIVE SplitLoop(_, _, _)
\* the while loop; acc collects [part, cut] in order
SplitLoop(t, current_pos, acc) ==
    IF ~(current_pos < TLen(t)) THEN acc
    ELSE LET chunk_end == current_pos + MAX_MESSAGE_LENGTH IN
         IF chunk_end >= TLen(t)
         THEN Append(acc, [part |-> TDrop(t, current_pos), cut |-> "rest"])
         ELSE LET split_at == RFind(t, NL, current_pos, chunk_end) IN
              IF SplitsAtNewline(split_at, current_pos)
              THEN SplitLoop(t, AfterNewline(split_at),
                       Append(acc, [part |-> TSlice(t, current_pos, split_at),
                                    cut |-> "newline"]))
              ELSE SplitLoop(t, chunk_end,
                       Append(acc, [part |-> TSlice(t, current_pos, chunk_end),
                                    cut |-> "hard"]))

SplitParts(t) == SplitLoop(t, 0, <<>>)

-----------------------------------------------------------------------------
(* What the network gives a handler *)

\* the locals of a handler invocation
NoFrame ==
    [handler |-> "none", message |-> <<>>, chat |-> NoChat, pc |-> "done",
     status |-> "returned", url |-> None, response |-> NoResponse,
     dhivehi_title |-> None, article_text_dhivehi |-> None,
     translated_title_english |-> None, translation_english_body |-> None,
     entity |-> NoChat, text |-> <<>>, parts |-> <<>>, cuts |-> <<>>, i |-> 0,
     trace |-> <<>>]

\* no second invocation is in progress
Alone == other = NoFrame

\* with two invocations in progress: a failed fetch and a page with a title
PairResponses ==
    { [NoResponse EXCEPT !.raises = TRUE],
      [raises |-> FALSE, status |-> HTTP_OK, title |-> Dhivehi(12), body |-> Dhivehi(50)] }

\* with two invocations in progress: a failed call, a short text and a text
\* that takes three parts
PairReplies ==
    { [kind |-> "error", content |-> <<>>],
      [kind |-> "text", content |-> Str(<<" ", "o", "k", "\n">>)],
      [kind |-> "text",
       content |-> <<R("x", 3000), R(NL, 1), R("y", 3000), R(NL, 2), R("z", 2000)>>] }

\* the responses a fetch of a handler may meet
PagesMet == IF Alone THEN Responses ELSE PairResponses

\* with two invocations in progress, for a title: a failed call and a short text
PairTitleReplies == { r \in PairReplies : TLen(r.content) <= 4 }

\* the outcomes a provider call of a handler may have
RepliesMet == IF Alone THEN ProviderReplies ELSE PairReplies

\* the outcomes the provider call for a title may have
TitleRepliesMet == IF Alone THEN ProviderReplies ELSE PairTitleReplies

-----------------------------------------------------------------------------
(* External calls, recorded in order *)

Call == [op |-> "", to |-> NoChat, what |-> "", payload |-> <<>>, msg |-> <<>>,
         ok |-> TRUE, idx |-> 0, secs |-> 0, ret |-> None]

\* client.send_message(entity, payload, parse_mode='html', link_preview=False)
SendCall(to, payload, what, k, ok) ==
    [Call EXCEPT !.op = "send", !.to = to, !.payload = payload, !.what = what,
                 !.idx = k, !.ok = ok]

\* asyncio.sleep(secs)
SleepCall(secs) == [Call EXCEPT !.op = "sleep", !.secs = secs]

\* session.get(url, timeout=30) and what fetch_article_text made of it
FetchCall(u, result) ==
    [Call EXCEPT !.op = "fetch", !.payload = u, !.ok = (result # <<None, None>>)]

\* chat.completions.create / messages.create of the selected provider: what
\* was asked, how the call went (outcome) and what translate_text returned
TranslateCall(provider, what, txt, max_tokens, outcome, ret) ==
    [Call EXCEPT !.op = "translate", !.to = provider, !.what = what,
                 !.payload = txt, !.idx = max_tokens, !.msg = <<outcome>>, !.ret = ret,
                 !.ok = (ret # None)]

\* event.reply(msg)
ReplyCall(to, what, msg, ok) ==
    [Call EXCEPT !.op = "reply", !.to = to, !.what = what, !.msg = msg, !.ok = ok]

SendOutcomes == {"ok", "error"}
ReplyOutcomes == {"ok", "error"}

-----------------------------------------------------------------------------
(* send_telegram_message_telethon: delivery *)

\* what the single-message branch hands to client.send_message
SinglePayload(t) == t

\* the pacing between parts: asyncio.sleep(1), reached only when send_message
\* returned and the part is not the last
PACING_DELAY == 1
SleepsAfter(outcome, k, n) == outcome = "ok" /\ k < n - 1

\* a failed part ending the loop, as if the try enclosed the for
LoopNext_AbortOnError(k, n, outcome) == IF outcome = "ok" THEN k + 1 ELSE n

\* the for loop goes on with the next part, after a delivered part and after
\* the except clause of a failed one alike
LoopNext(k, n, outcome) == k + 1

\* entry of the function up to its first await: the length test and, for a
\* long text, the whole splitting loop
send_enter ==
    /\ pc = "send_enter"
    /\ IF FitsOneMessage(text)
       THEN /\ pc' = "send_single"
            /\ UNCHANGED <<parts, cuts, status>>
       ELSE LET sp == SplitParts(text) IN
            /\ parts' = [k \in 1..Len(sp) |-> sp[k].part]
            /\ cuts' = [k \in 1..Len(sp) |-> sp[k].cut]
            /\ IF Len(sp) > 0
               THEN pc' = "send_part" /\ status' = status
               ELSE pc' = "done" /\ status' = "returned"
    /\ i' = 0
    /\ UNCHANGED <<evVars, url, fetchVars, transVars, entity, text, trace>>

\* the single send of a text that fits, inside its try/except
send_single ==
    /\ pc = "send_single"
    /\ \E outcome \in SendOutcomes :
          trace' = Append(trace, SendCall(entity, SinglePayload(text), "single", 0,
                                          outcome = "ok"))
    /\ pc' = "done"
    /\ status' = "returned"
    /\ UNCHANGED <<evVars, url, fetchVars, transVars, entity, text, loopVars>>

\* one iteration of "for i, part in enumerate(parts)" up to its next await
send_part ==
    /\ pc = "send_part"
    /\ \E outcome \in SendOutcomes :
          /\ trace' = Append(trace, SendCall(entity, parts[i + 1], "part", i,
                                             outcome = "ok"))
          /\ IF SleepsAfter(outcome, i, Len(parts))
             THEN /\ pc' = "sleep"
                  /\ UNCHANGED <<i, status>>
             ELSE /\ i' = LoopNext(i, Len(parts), outcome)
                  /\ IF i' < Len(parts)
                     THEN pc' = "send_part" /\ status' = status
                     ELSE pc' = "done" /\ status' = "returned"
    /\ UNCHANGED <<evVars, url, fetchVars, transVars, entity, text, parts, cuts>>

\* await asyncio.sleep(1), then the next iteration
send_sleep ==
    /\ pc = "sleep"
    /\ trace' = Append(trace, SleepCall(PACING_DELAY))
    /\ i' = LoopNext(i, Len(parts), "ok")
    /\ IF i' < Len(parts)
       THEN pc' = "send_part" /\ status' = status
       ELSE pc' = "done" /\ status' = "returned"
    /\ UNCHANGED <<evVars, url, fetchVars, transVars, entity, text, parts, cuts>>

-----------------------------------------------------------------------------
(* Decisions both handlers make *)

MIN_BODY_POST == 50
MIN_BODY_COMMAND == 30

\* the length test with the boundary taken in
ExtractionFailed_Inclusive(body, minimum) == ~Truthy(body) \/ TLen(body) <= minimum

\* the test without its length half
ExtractionFailed_NoneOnly(body, minimum) == body = None

\* not article_text_dhivehi or len(article_text_dhivehi) < minimum
ExtractionFailed(body, minimum) == ~Truthy(body) \/ TLen(body) < minimum

\* the last match taken
FirstUrl_Last(urls) == urls[Len(urls)]

\* url = urls[0]
FirstUrl(urls) == urls[1]

\* the source channel taken for the destination
target_channel_entity_Source == "source"

\* the entity TARGET_CHANNEL_ENV resolved to
target_channel_entity == "target"

\* if dhivehi_title:
HasTitle(title) == Truthy(title)

\* "is None" in place of "not": an empty translation passes
TranslationFailed_NoneOnly(tb) == tb = None

\* if not translation_english_body:
TranslationFailed(tb) == ~Truthy(tb)

\* the trace after a translate_text call
AfterTranslate(t, what, txt, title) ==
    IF t.called
    THEN Append(trace, TranslateCall(t.provider, what, txt, MaxTokens(title),
                                     t.outcome, t.ret))
    ELSE trace

-----------------------------------------------------------------------------
(* handle_new_post *)

\* from the event to the first await: the URL search
post_start ==
    /\ pc = "post_start"
    /\ LET message_text == IF message = None THEN <<>> ELSE message
           urls == FindAll(message_text)
       IN  IF urls = <<>>
           THEN pc' = "done" /\ status' = "returned" /\ url' = url
           ELSE pc' = "post_fetch" /\ status' = status /\ url' = FirstUrl(urls)
    /\ UNCHANGED <<evVars, fetchVars, transVars, entity, text, loopVars, trace>>

\* await fetch_article_text(url), then the length test
post_fetch ==
    /\ pc = "post_fetch"
    /\ \E resp \in PagesMet :
          LET r == fetch_article_text(resp) IN
          /\ response' = resp
          /\ dhivehi_title' = r[1]
          /\ article_text_dhivehi' = r[2]
          /\ trace' = Append(trace, FetchCall(url, r))
          /\ IF ExtractionFailed(r[2], MIN_BODY_POST)
             THEN pc' = "done" /\ status' = "returned"
             ELSE /\ pc' = IF HasTitle(r[1]) THEN "post_title" ELSE "post_body"
                  /\ status' = status
    /\ UNCHANGED <<evVars, url, transVars, entity, text, loopVars>>

\* await translate_text(dhivehi_title, is_title=True)
post_title ==
    /\ pc = "post_title"
    /\ \E reply \in TitleRepliesMet :
          LET t == translate_text(config, dhivehi_title, TRUE, reply) IN
          /\ translated_title_english' = t.ret
          /\ trace' = AfterTranslate(t, "title", dhivehi_title, TRUE)
    /\ pc' = "post_body"
    /\ UNCHANGED <<evVars, url, fetchVars, translation_english_body, status, entity,
                   text, loopVars>>

\* await translate_text(article_text_dhivehi), the test of its result and the
\* message handed to send_telegram_message_telethon
post_body ==
    /\ pc = "post_body"
    /\ \E reply \in RepliesMet :
          LET t == translate_text(config, article_text_dhivehi, FALSE, reply) IN
          /\ translation_english_body' = t.ret
          /\ trace' = AfterTranslate(t, "body", article_text_dhivehi, FALSE)
          /\ IF TranslationFailed(t.ret)
             THEN /\ pc' = "done" /\ status' = "returned"
                  /\ UNCHANGED <<entity, text>>
             ELSE /\ pc' = "send_enter" /\ status' = status
                  /\ entity' = target_channel_entity
                  /\ text' = FormatMessage(translated_title_english, t.ret, url)
    /\ UNCHANGED <<evVars, url, fetchVars, translated_title_english, loopVars>>

-----------------------------------------------------------------------------
(* manual_translate_handler *)

USAGE_REPLY == <<"Please provide a URL after the /translate command.">>
AckReply(u) == <<"Processing manual translation for: ", u, "...">>
ExtractFailReply(u) ==
    <<"Could not extract enough article body text from ", u,
      ". Please check the URL or try another.">>
TranslateFailReply(u) ==
    <<"Translation of body failed for ", u,
      ". The translation service might be unavailable or the content is not translatable.">>

\* await event.reply(msg): when it raises, nothing in the handler catches
\* the exception; otherwise the handler goes on to next, or returns
Reply(at, what, msg, next) ==
    /\ pc = at
    /\ \E outcome \in ReplyOutcomes :
          /\ trace' = Append(trace, ReplyCall(chat, what, msg, outcome = "ok"))
          /\ IF outcome = "ok"
             THEN /\ pc' = next
                  /\ status' = IF next = "done" THEN "returned" ELSE status
             ELSE pc' = "done" /\ status' = "raised"
    /\ UNCHANGED <<evVars, url, fetchVars, transVars, entity, text, loopVars>>

\* from the event to the first await: the argument and the URL search
cmd_start ==
    /\ pc = "cmd_start"
    /\ LET command_text == TStrip(PatternGroup(message))
           urls == FindAll(command_text)
       IN  IF urls = <<>>
           THEN pc' = "cmd_reply_usage" /\ url' = url
           ELSE pc' = "cmd_reply_ack" /\ url' = FirstUrl(urls)
    /\ UNCHANGED <<evVars, status, fetchVars, transVars, entity, text, loopVars, trace>>

cmd_reply_usage == Reply("cmd_reply_usage", "usage", USAGE_REPLY, "done")

cmd_reply_ack == Reply("cmd_reply_ack", "ack", AckReply(url), "cmd_fetch")

\* await fetch_article_text(url), then the length test
cmd_fetch ==
    /\ pc = "cmd_fetch"
    /\ \E resp \in PagesMet :
          LET r == fetch_article_text(resp) IN
          /\ response' = resp
          /\ dhivehi_title' = r[1]
          /\ article_text_dhivehi' = r[2]
          /\ trace' = Append(trace, FetchCall(url, r))
          /\ pc' = IF ExtractionFailed(r[2], MIN_BODY_COMMAND) THEN "cmd_reply_extract"
                   ELSE IF HasTitle(r[1]) THEN "cmd_title"
                   ELSE "cmd_body"
    /\ UNCHANGED <<evVars, url, status, transVars, entity, text, loopVars>>

cmd_reply_extract ==
    Reply("cmd_reply_extract", "extract_fail", ExtractFailReply(url), "done")

\* await translate_text(dhivehi_title, is_title=True)
cmd_title ==
    /\ pc = "cmd_title"
    /\ \E reply \in TitleRepliesMet :
          LET t == translate_text(config, dhivehi_title, TRUE, reply) IN
          /\ translated_title_english' = t.ret
          /\ trace' = AfterTranslate(t, "title", dhivehi_title, TRUE)
    /\ pc' = "cmd_body"
    /\ UNCHANGED <<evVars, url, fetchVars, translation_english_body, status, entity,
                   text, loopVars>>

\* await translate_text(article_text_dhivehi), the test of its result and the
\* message handed to send_telegram_message_telethon
cmd_body ==
    /\ pc = "cmd_body"
    /\ \E reply \in RepliesMet :
          LET t == translate_text(config, article_text_dhivehi, FALSE, reply) IN
          /\ translation_english_body' = t.ret
          /\ trace' = AfterTranslate(t, "body", article_text_dhivehi, FALSE)
          /\ IF TranslationFailed(t.ret)
             THEN /\ pc' = "cmd_reply_translate"
                  /\ UNCHANGED <<entity, text>>
             ELSE /\ pc' = "send_enter"
                  /\ entity' = chat
                  /\ text' = FormatMessage(translated_title_english, t.ret, url)
    /\ UNCHANGED <<evVars, url, status, fetchVars, translated_title_english, loopVars>>

cmd_reply_translate ==
    Reply("cmd_reply_translate", "translate_fail", TranslateFailReply(url), "done")

-----------------------------------------------------------------------------
(* One triggering event, handled by one of the two handlers *)

Messages ==
    { Str(<<"h", "e", "l", "l", "o">>),
      Str(<<"h", "t", "t", "p", "s", ":", "/", "/", "x", "/", "y">>),
      Str(<<"n", "e", "w", " ", "h", "t", "t", "p", "s", ":", "/", "/", "x", "/", "y", "\n", "h", "t", "t", "p", ":", "/", "/", "z", "/", "?", "a", "&", "b", "<", "c", ">">>),
      Str(<<"h", "t", "t", "p", "s", ":", "/", "/", " ", "x">>),
      Str(<<"/", "t", "r", "a", "n", "s", "l", "a", "t", "e">>),
      Str(<<"/", "t", "r", "a", "n", "s", "l", "a", "t", "e", " ", "h", "e", "l", "l", "o">>),
      Str(<<"/", "t", "r", "a", "n", "s", "l", "a", "t", "e", " ", "h", "t", "t", "p", "s", ":", "/", "/", "x", "/", "y">>),
      Str(<<"/", "t", "r", "a", "n", "s", "l", "a", "t", "e", " ", " ", "s", "e", "e", " ", "h", "t", "t", "p", ":", "/", "/", "z", "/", "?", "a", "&", "b", "<", "c", ">", " ", " ">>),
      Str(<<"/", "t", "r", "a", "n", "s", "l", "a", "t", "e", "h", "t", "t", "p", "s", ":", "/", "/", "x", "/", "y">>) }

\* events.NewMessage(chats=[mihaaru_channel_id_resolved]): any message of the
\* source channel, its text possibly None
PostEvents == [handler : {"post"}, chat : {"source"}, message : Messages \cup {None}]

\* events.NewMessage(pattern=r'/translate(?:\s+|$)(.*)'): a matching message of any chat
CommandEvents ==
    [handler : {"command"}, chat : {"user", "source", "target"},
     message : { m \in Messages : PatternGroup(m) # None }]

\* translate_text is not being run on its own
TranslateIdle == dhivehi_text = None /\ is_title = FALSE /\ translation = None

Handlers == {"handle_new_post", "manual_translate_handler"}

\* main() has connected the client and registered both handlers
Listening == client = "connected" /\ registered = Handlers

NoSoup == [h1s |-> <<>>, head |-> <<>>, body |-> FALSE, nodes |-> <<>>]

\* the extraction of fetch_article_text is not being run on its own
SoupIdle ==
    /\ soup = NoSoup /\ article_texts = <<>>
    /\ extracted_body_text = <<>> /\ final_body_text = None

Init ==
    /\ config \in RunningConfigs
    /\ TranslateIdle /\ Listening /\ SoupIdle /\ Alone
    /\ \E ev \in PostEvents \cup CommandEvents :
          /\ handler = ev.handler
          /\ chat = ev.chat
          /\ message = ev.message
          /\ pc = IF ev.handler = "post" THEN "post_start" ELSE "cmd_start"
    /\ status = "running"
    /\ url = None
    /\ response = NoResponse
    /\ dhivehi_title = None
    /\ article_text_dhivehi = None
    /\ translated_title_english = None
    /\ translation_english_body = None
    /\ entity = NoChat
    /\ text = <<>>
    /\ parts = <<>>
    /\ cuts = <<>>
    /\ i = 0
    /\ trace = <<>>

Next ==
    \/ post_start \/ post_fetch \/ post_title \/ post_body
    \/ cmd_start \/ cmd_reply_usage \/ cmd_reply_ack \/ cmd_fetch \/ cmd_reply_extract
    \/ cmd_title \/ cmd_body \/ cmd_reply_translate
    \/ send_enter \/ send_single \/ send_part \/ send_sleep

Spec == Init /\ [][Next]_vars

-----------------------------------------------------------------------------
(* send_telegram_message_telethon on its own, for every text *)

MaxRuns == 4
RunLens == {1, 2, 3999, 4000, 4001}
TextChars == <<"a", NL>>

\* the texts of k runs, alternating a letter and the newline
TextsOfRuns(k) ==
    { [j \in 1..k |-> R(TextChars[((j + first) % 2) + 1], f[j])] :
          f \in [1..k -> RunLens], first \in {0, 1} }

Texts == UNION { TextsOfRuns(k) : k \in 0..MaxRuns }

Destinations == {"target", "user"}

InitSend ==
    /\ TranslateIdle /\ Listening /\ SoupIdle /\ Alone
    /\ config = [provider |-> "openai", openai_key |-> TRUE, anthropic_key |-> FALSE,
                 common_vars |-> <<TRUE, TRUE, TRUE, TRUE>>]
    /\ handler = "send"
    /\ message = <<>>
    /\ chat = NoChat
    /\ response = NoResponse
    /\ pc = "send_enter"
    /\ status = "running"
    /\ url = None
    /\ dhivehi_title = None
    /\ article_text_dhivehi = None
    /\ translated_title_english = None
    /\ translation_english_body = None
    /\ entity \in Destinations
    /\ text \in Texts
    /\ parts = <<>>
    /\ cuts = <<>>
    /\ i = 0
    /\ trace = <<>>

NextSend == send_enter \/ send_single \/ send_part \/ send_sleep

SpecSend == InitSend /\ [][NextSend]_vars

-----------------------------------------------------------------------------
(* translate_text on its own, for every configuration, text and role *)

\* from the call to the await of the provider: the guards
translate_enter ==
    /\ pc = "translate_enter"
    /\ LET t == translate_text(config, dhivehi_text, is_title, CHOOSE r \in ProviderReplies : TRUE)
       IN  IF t.called
           THEN pc' = "translate_await" /\ UNCHANGED <<status, translation>>
           ELSE pc' = "done" /\ status' = "returned" /\ translation' = t.ret
    /\ UNCHANGED <<other, config, handler, message, chat, dhivehi_text, is_title, mainVars,
                   soupVars, url, fetchVars, transVars, entity, text, loopVars, trace>>

\* await of the provider call, the response read and the return
translate_await ==
    /\ pc = "translate_await"
    /\ \E reply \in ProviderReplies :
          LET t == translate_text(config, dhivehi_text, is_title, reply) IN
          /\ trace' = AfterTranslate(t, IF is_title THEN "title" ELSE "body",
                                     dhivehi_text, is_title)
          /\ translation' = t.ret
          /\ status' = IF t.raised THEN "raised" ELSE "returned"
    /\ pc' = "done"
    /\ UNCHANGED <<other, config, handler, message, chat, dhivehi_text, is_title, mainVars,
                   soupVars, url, fetchVars, transVars, entity, text, loopVars>>

TranslateInputs == {None, <<>>, Dhivehi(12), Dhivehi(50)}

InitTranslate ==
    /\ Listening /\ SoupIdle /\ Alone
    /\ config \in AllConfigs
    /\ handler = "translate"
    /\ dhivehi_text \in TranslateInputs
    /\ is_title \in BOOLEAN
    /\ translation = None
    /\ message = <<>>
    /\ chat = NoChat
    /\ response = NoResponse
    /\ pc = "translate_enter"
    /\ status = "running"
    /\ url = None
    /\ dhivehi_title = None
    /\ article_text_dhivehi = None
    /\ translated_title_english = None
    /\ translation_english_body = None
    /\ entity = NoChat
    /\ text = <<>>
    /\ parts = <<>>
    /\ cuts = <<>>
    /\ i = 0
    /\ trace = <<>>

NextTranslate == translate_enter \/ translate_await

SpecTranslate == InitTranslate /\ [][NextTranslate]_vars

-----------------------------------------------------------------------------
(* main: the environment check, the client and the registration of the handlers *)

ConnectOutcomes == {"ok", "connect_error", "start_error"}

\* the environment check and, past it, TelegramClient(SESSION_NAME,
\* int(TELEGRAM_API_ID), ...): int() raises on an id that is not a number,
\* outside the try
main_check ==
    /\ pc = "main_check"
    /\ IF ~MainProceeds(config)
       THEN pc' = "done" /\ status' = "returned" /\ client' = client
       ELSE \E numeric \in BOOLEAN :
               IF numeric
               THEN pc' = "main_connect" /\ status' = status /\ client' = "constructed"
               ELSE pc' = "done" /\ status' = "raised" /\ client' = client
    /\ UNCHANGED <<other, config, handler, message, chat, translateVars, registered, soupVars,
                   url, fetchVars, transVars, entity, text, loopVars, trace>>

\* client.connect(), is_user_authorized() and start(); an exception is logged
\* by the except clauses and the finally clause disconnects a connected client
main_connect ==
    /\ pc = "main_connect"
    /\ \E outcome \in ConnectOutcomes :
          /\ client' = IF outcome = "ok" THEN "connected"
                       ELSE IF outcome = "start_error" THEN "disconnected"
                       ELSE client
          /\ IF outcome = "ok"
             THEN pc' = "main_resolve" /\ status' = status
             ELSE pc' = "done" /\ status' = "returned"
    /\ UNCHANGED <<other, config, handler, message, chat, translateVars, registered, soupVars,
                   url, fetchVars, transVars, entity, text, loopVars, trace>>

\* get_entity_safely for both channels; main returns when either is None
main_resolve ==
    /\ pc = "main_resolve"
    /\ \E mihaaru_channel_entity, target_entity \in BOOLEAN :
          IF mihaaru_channel_entity /\ target_entity
          THEN pc' = "main_register" /\ status' = status /\ client' = client
          ELSE pc' = "done" /\ status' = "returned" /\ client' = "disconnected"
    /\ UNCHANGED <<other, config, handler, message, chat, translateVars, registered, soupVars,
                   url, fetchVars, transVars, entity, text, loopVars, trace>>

\* the two @client.on decorators
main_register ==
    /\ pc = "main_register"
    /\ registered' = Handlers
    /\ pc' = "main_listen"
    /\ UNCHANGED <<other, config, handler, message, chat, translateVars, client, soupVars,
                   status, url, fetchVars, transVars, entity, text, loopVars, trace>>

\* client.run_until_disconnected() ends; the finally clause disconnects
main_listen ==
    /\ pc = "main_listen"
    /\ client' = "disconnected"
    /\ pc' = "done"
    /\ status' = "returned"
    /\ UNCHANGED <<other, config, handler, message, chat, translateVars, registered, soupVars,
                   url, fetchVars, transVars, entity, text, loopVars, trace>>

InitMain ==
    /\ config \in AllConfigs
    /\ handler = "main"
    /\ client = "none"
    /\ registered = {}
    /\ TranslateIdle /\ SoupIdle /\ Alone
    /\ message = <<>>
    /\ chat = NoChat
    /\ response = NoResponse
    /\ pc = "main_check"
    /\ status = "running"
    /\ url = None
    /\ dhivehi_title = None
    /\ article_text_dhivehi = None
    /\ translated_title_english = None
    /\ translation_english_body = None
    /\ entity = NoChat
    /\ text = <<>>
    /\ parts = <<>>
    /\ cuts = <<>>
    /\ i = 0
    /\ trace = <<>>

NextMain == main_check \/ main_connect \/ main_resolve \/ main_register \/ main_listen

SpecMain == InitMain /\ [][NextMain]_vars

-----------------------------------------------------------------------------
(* fetch_article_text on its own, for every page *)

P_FASEYHA == {"text-19px", "leading-loose", "text-faseyha"}
P_WIDE == {"text-19px", "leading-loose", "max-w-3xl", "text-black-two"}
P_OTHER == {"text-19px", "leading-loose"}
DIV_ML == {"hidden", "lg:block", "ml-10"}
DIV_M1 == {"hidden", "lg:block", "m1-10"}

Letters == <<"a", "b", "c", "d", "e", "f">>

\* the nodes that may stand at position k: at depth 0 the marker comment, a
\* paragraph of each class combination, an accepted paragraph without text,
\* the divider in both spellings and an <article>; at depth 1 an accepted and
\* a plain paragraph
NodesAt(k, depth) ==
    IF depth = 0
    THEN { Node("comment", {}, Str(<<" ", "A", "r", "t", "i", "c", "l", "e", " ", "B", "o", "d", "y", " ">>), 0),
           Node("p", P_FASEYHA, <<R(Letters[k], 2)>>, 0),
           Node("p", P_WIDE, <<R(Letters[k], 2)>>, 0),
           Node("p", P_OTHER, <<R(Letters[k], 2)>>, 0),
           Node("p", P_FASEYHA, <<>>, 0),
           Node("div", DIV_ML, <<>>, 0),
           Node("div", DIV_M1, <<>>, 0),
           Node("article", {}, <<>>, 0) }
    ELSE { Node("p", P_FASEYHA, <<R(Letters[k], 2)>>, 1),
           Node("p", P_OTHER, <<R(Letters[k], 2)>>, 1) }

\* a node of depth 1 may follow an element that can hold it, or another node
\* of depth 1
CanNest(s) ==
    s # <<>> /\ (s[Len(s)].depth = 1 \/ s[Len(s)].name \in {"div", "article"})

RECURSIVE NodeSeqs(_)
\* the pages' node sequences of length n
NodeSeqs(n) ==
    IF n = 0 THEN {<<>>}
    ELSE { Append(s, x) : s \in NodeSeqs(n - 1), x \in NodesAt(n, 0) }
         \cup UNION { { Append(s, x) : x \in NodesAt(n, 1) } :
                        s \in { q \in NodeSeqs(n - 1) : CanNest(q) } }

MaxNodes == 4
SmallNodes == 1

H1(class, txt) == [name |-> "h1", class |-> class, text |-> txt, depth |-> 0]

\* no h1; a title of the first variant; one of the second variant ahead of one
\* of the first; a title of the first variant holding only blanks; an h1 of
\* neither variant
H1Lists ==
    { <<>>,
      <<H1(TITLE_CLASSES, <<R(" ", 1), R("t", 3), R(" ", 1)>>)>>,
      <<H1(TITLE_CLASSES_FALLBACK, <<R("u", 3)>>), H1(TITLE_CLASSES, <<R("t", 3)>>)>>,
      <<H1(TITLE_CLASSES_FALLBACK, <<R("u", 3)>>)>>,
      <<H1(TITLE_CLASSES, <<R(" ", 2)>>)>>,
      <<H1({"text-waheed"}, <<R("v", 3)>>)>> }

\* every title and shell around a short page, and every page up to MaxNodes
\* nodes under one shell
Pages ==
    [h1s : H1Lists, head : {<<>>, <<R("h", 2)>>}, body : BOOLEAN,
     nodes : UNION { NodeSeqs(n) : n \in 0..SmallNodes }]
    \cup [h1s : {<<>>}, head : {<<R("h", 2)>>}, body : {TRUE},
          nodes : UNION { NodeSeqs(n) : n \in 0..MaxNodes }]

\* session.get: an exception, or a response with its status
FetchOutcomes == {[raises |-> TRUE, status |-> 0]} \cup [raises : {FALSE}, status : HttpStatuses]

\* session.get and the status test; a failure returns (None, None)
fetch_get ==
    /\ pc = "fetch_get"
    /\ \E o \in FetchOutcomes :
          LET resp == [NoResponse EXCEPT !.raises = o.raises, !.status = o.status] IN
          /\ response' = resp
          /\ IF o.raises \/ FetchRejects(o.status)
             THEN /\ pc' = "done" /\ status' = "returned"
                  /\ trace' = Append(trace, FetchCall(url, fetch_article_text(resp)))
             ELSE /\ pc' = "fetch_title" /\ status' = status
                  /\ trace' = trace
    /\ UNCHANGED <<evVars, url, dhivehi_title, article_text_dhivehi, transVars, entity,
                   text, loopVars>>

\* the title, and the removal of the non-content tags
fetch_title ==
    /\ pc = "fetch_title"
    /\ dhivehi_title' = ExtractTitle(soup.h1s)
    /\ pc' = "fetch_marker"
    /\ UNCHANGED <<evVars, url, response, article_text_dhivehi, status, transVars,
                   entity, text, loopVars, trace>>

\* the walk from the marker comment
fetch_marker ==
    /\ pc = "fetch_marker"
    /\ article_texts' = MarkerWalk(soup.nodes)
    /\ extracted_body_text' =
          IF article_texts' # <<>> THEN JoinParagraphs(article_texts') ELSE <<>>
    /\ pc' = IF extracted_body_text' = <<>> THEN "fetch_fallback" ELSE "fetch_finish"
    /\ UNCHANGED <<other, config, handler, message, chat, translateVars, mainVars, soup,
                   final_body_text, url, fetchVars, status, transVars, entity, text,
                   loopVars, trace>>

\* if not extracted_body_text: the <article> or the body
fetch_fallback ==
    /\ pc = "fetch_fallback"
    /\ extracted_body_text' = Fallback(soup)
    /\ pc' = "fetch_finish"
    /\ UNCHANGED <<other, config, handler, message, chat, translateVars, mainVars, soup,
                   article_texts, final_body_text, url, fetchVars, status, transVars,
                   entity, text, loopVars, trace>>

\* the post-processing of the body and the result returned
fetch_finish ==
    /\ pc = "fetch_finish"
    /\ final_body_text' = FinalBody(extracted_body_text)
    /\ LET resp == [response EXCEPT !.title = dhivehi_title, !.body = final_body_text']
           r == fetch_article_text(resp)
       IN  /\ response' = resp
           /\ dhivehi_title' = r[1]
           /\ article_text_dhivehi' = r[2]
           /\ trace' = Append(trace, FetchCall(url, r))
    /\ pc' = "done"
    /\ status' = "returned"
    /\ UNCHANGED <<other, config, handler, message, chat, translateVars, mainVars, soup,
                   article_texts, extracted_body_text, url, transVars, entity, text,
                   loopVars>>

InitFetch ==
    /\ config = [provider |-> "openai", openai_key |-> TRUE, anthropic_key |-> FALSE,
                 common_vars |-> <<TRUE, TRUE, TRUE, TRUE>>]
    /\ handler = "fetch"
    /\ TranslateIdle /\ Listening /\ Alone
    /\ soup \in Pages
    /\ article_texts = <<>>
    /\ extracted_body_text = <<>>
    /\ final_body_text = None
    /\ message = <<>>
    /\ chat = NoChat
    /\ response = NoResponse
    /\ pc = "fetch_get"
    /\ status = "running"
    /\ url = Str(<<"h", "t", "t", "p", ":", "/", "/", "x">>)
    /\ dhivehi_title = None
    /\ article_text_dhivehi = None
    /\ translated_title_english = None
    /\ translation_english_body = None
    /\ entity = NoChat
    /\ text = <<>>
    /\ parts = <<>>
    /\ cuts = <<>>
    /\ i = 0
    /\ trace = <<>>

NextFetch == fetch_get \/ fetch_title \/ fetch_marker \/ fetch_fallback \/ fetch_finish

SpecFetch == InitFetch /\ [][NextFetch]_vars

-----------------------------------------------------------------------------
(* Two channel posts handled at the same time: the event loop runs one handler
   invocation until it awaits, then resumes either of them *)

\* the locals of the invocation that is running
Frame ==
    [handler |-> handler, message |-> message, chat |-> chat, pc |-> pc,
     status |-> status, url |-> url, response |-> response,
     dhivehi_title |-> dhivehi_title, article_text_dhivehi |-> article_text_dhivehi,
     translated_title_english |-> translated_title_english,
     translation_english_body |-> translation_english_body,
     entity |-> entity, text |-> text, parts |-> parts, cuts |-> cuts, i |-> i,
     trace |-> trace]

\* parts and i kept in one place for all invocations
Resume_SharedParts(saved, running) ==
    [saved EXCEPT !.parts = running.parts, !.cuts = running.cuts, !.i = running.i]

\* the locals an invocation is resumed with: url, the texts, parts, i and the
\* rest are local variables of the coroutines, so the ones it was suspended with
Resume(saved, running) == saved

\* the event loop suspends the running invocation at its await and resumes
\* the other one
resume_other ==
    /\ other.status = "running"
    /\ other' = Frame
    /\ LET f == Resume(other, Frame) IN
       /\ handler' = f.handler
       /\ message' = f.message
       /\ chat' = f.chat
       /\ pc' = f.pc
       /\ status' = f.status
       /\ url' = f.url
       /\ response' = f.response
       /\ dhivehi_title' = f.dhivehi_title
       /\ article_text_dhivehi' = f.article_text_dhivehi
       /\ translated_title_english' = f.translated_title_english
       /\ translation_english_body' = f.translation_english_body
       /\ entity' = f.entity
       /\ text' = f.text
       /\ parts' = f.parts
       /\ cuts' = f.cuts
       /\ i' = f.i
       /\ trace' = f.trace
    /\ UNCHANGED <<config, translateVars, mainVars, soupVars>>

\* two posts of the source channel, with different URLs
FirstPost == Str(<<"h", "t", "t", "p", "s", ":", "/", "/", "x", "/", "y">>)
SecondPost == Str(<<"s", "e", "e", " ", "h", "t", "t", "p", ":", "/", "/", "z", "/", "?", "a", "&", "b">>)

InitPair ==
    /\ config = [provider |-> "openai", openai_key |-> TRUE, anthropic_key |-> FALSE,
                 common_vars |-> <<TRUE, TRUE, TRUE, TRUE>>]
    /\ TranslateIdle /\ Listening /\ SoupIdle
    /\ handler = "post"
    /\ chat = "source"
    /\ message = FirstPost
    /\ pc = "post_start"
    /\ status = "running"
    /\ url = None
    /\ response = NoResponse
    /\ dhivehi_title = None
    /\ article_text_dhivehi = None
    /\ translated_title_english = None
    /\ translation_english_body = None
    /\ entity = NoChat
    /\ text = <<>>
    /\ parts = <<>>
    /\ cuts = <<>>
    /\ i = 0
    /\ trace = <<>>
    /\ other = [NoFrame EXCEPT !.handler = "post", !.chat = "source",
                               !.message = SecondPost, !.pc = "post_start",
                               !.status = "running"]

NextPair ==
    \/ post_start \/ post_fetch \/ post_title \/ post_body
    \/ send_enter \/ send_single \/ send_part \/ send_sleep
    \/ resume_other

SpecPair == InitPair /\ [][NextPair]_vars

-----------------------------------------------------------------------------
(* One incoming message and the handlers main() registered for it *)

\* events.NewMessage(chats=[mihaaru_channel_id_resolved])
ChatsFilter(c) == c = "source"

\* events.NewMessage(pattern=r'/translate(?:\s+|$)(.*)')
PatternFilter(m) == m # None /\ PatternGroup(m) # None

\* only the first handler whose filter passes is started
Dispatched_FirstOnly(c, m) ==
    IF ChatsFilter(c) THEN <<"post">>
    ELSE IF PatternFilter(m) THEN <<"command">>
    ELSE <<>>

\* the handlers started for a message m of chat c, in the order of the two
\* client.on registrations: each where its own filter passes
Dispatched(c, m) ==
    (IF ChatsFilter(c) THEN <<"post">> ELSE <<>>)
        \o (IF PatternFilter(m) THEN <<"command">> ELSE <<>>)

\* the locals of handler h as it is started on the event
StartFrame(h, c, m) ==
    [NoFrame EXCEPT !.handler = h, !.chat = c, !.message = m,
                    !.pc = IF h = "post" THEN "post_start" ELSE "cmd_start",
                    !.status = "running"]

\* the message arrives: every registered handler whose filter passes is started
dispatch ==
    /\ pc = "dispatch"
    /\ LET hs == Dispatched(chat, message) IN
       /\ handler' = IF hs = <<>> THEN "none" ELSE hs[1]
       /\ pc' = IF hs = <<>> THEN "done" ELSE StartFrame(hs[1], chat, message).pc
       /\ status' = IF hs = <<>> THEN "returned" ELSE "running"
       /\ other' = IF Len(hs) = 2 THEN StartFrame(hs[2], chat, message) ELSE NoFrame
    /\ UNCHANGED <<config, message, chat, translateVars, mainVars, soupVars, url,
                   fetchVars, transVars, entity, text, loopVars, trace>>

InitDispatch ==
    /\ config = [provider |-> "openai", openai_key |-> TRUE, anthropic_key |-> FALSE,
                 common_vars |-> <<TRUE, TRUE, TRUE, TRUE>>]
    /\ TranslateIdle /\ Listening /\ SoupIdle /\ Alone
    /\ handler = "none"
    /\ chat \in {"source", "user"}
    /\ message \in Messages \cup {None}
    /\ pc = "dispatch"
    /\ status = "running"
    /\ url = None
    /\ response = NoResponse
    /\ dhivehi_title = None
    /\ article_text_dhivehi = None
    /\ translated_title_english = None
    /\ translation_english_body = None
    /\ entity = NoChat
    /\ text = <<>>
    /\ parts = <<>>
    /\ cuts = <<>>
    /\ i = 0
    /\ trace = <<>>

NextDispatch ==
    \/ dispatch
    \/ post_start \/ post_fetch \/ post_title \/ post_body
    \/ cmd_start \/ cmd_reply_usage \/ cmd_reply_ack \/ cmd_fetch \/ cmd_reply_extract
    \/ cmd_title \/ cmd_body \/ cmd_reply_translate
    \/ send_enter \/ send_single \/ send_part \/ send_sleep
    \/ resume_other

SpecDispatch == InitDispatch /\ [][NextDispatch]_vars

-----------------------------------------------------------------------------
(* Properties of send_telegram_message_telethon (SpecSend) *)

\* the send_message calls made so far, in order
Sends == SelectSeq(trace, LAMBDA c : c.op = "send")

\* the sleeps made so far
Sleeps == SelectSeq(trace, LAMBDA c : c.op = "sleep")

IsLong == TLen(text) > MAX_MESSAGE_LENGTH

RECURSIVE Rejoin(_, _)
\* the parts put back together: a newline where a part ended at a newline
\* split, nothing where it ended at a hard cut
Rejoin(ps, cs) ==
    IF ps = <<>> THEN <<>>
    ELSE IF Len(ps) = 1 THEN ps[1]
    ELSE TCat(TCat(ps[1], IF cs[1] = "newline" THEN <<R(NL, 1)>> ELSE <<>>),
              Rejoin(Tail(ps), Tail(cs)))

\* C1: once the splitting loop has run on a text longer than MAX_MESSAGE_LENGTH,
\* there is at least one part, every part is at most MAX_MESSAGE_LENGTH long, and
\* the parts rejoined in order (a newline re-inserted at each newline split,
\* nothing at a hard cut) are exactly the text.
C1_SplitReconstructs ==
    (IsLong /\ pc # "send_enter") =>
        /\ Len(parts) >= 1
        /\ \A k \in 1..Len(parts) : TLen(parts[k]) <= MAX_MESSAGE_LENGTH
        /\ Rejoin(parts, cuts) = text

\* a long text was split both at a newline and by a hard cut
C1_Witness ==
    /\ IsLong /\ pc = "done"
    /\ \E k \in 1..Len(cuts) : cuts[k] = "newline"
    /\ \E k \in 1..Len(cuts) : cuts[k] = "hard"
    /\ Len(parts) >= 3

\* C2: a text of at most MAX_MESSAGE_LENGTH characters is never split and
\* never paced: nothing is sent before the single send, and when the function
\* is done the calls made are exactly one send_message, to the destination,
\* carrying the text unchanged.
C2_ShortTextSentWhole ==
    (handler = "send" /\ ~IsLong) =>
        /\ parts = <<>>
        /\ pc # "done" => trace = <<>>
        /\ pc = "done" =>
              /\ Len(trace) = 1
              /\ trace[1].op = "send"
              /\ trace[1].to = entity
              /\ trace[1].payload = text

\* a text of exactly MAX_MESSAGE_LENGTH characters went out in one send
C2_Witness ==
    /\ handler = "send" /\ pc = "done"
    /\ TLen(text) = MAX_MESSAGE_LENGTH
    /\ Len(trace) = 1 /\ trace[1].op = "send" /\ trace[1].ok

\* C3: for a text that was split, the send attempts made so far are the parts
\* 0, 1, 2, ... in list order, each once, whatever the outcomes of the earlier
\* attempts; when the function is done every part was attempted and it has
\* returned normally.
C3_PartsInOrderDespiteFailures ==
    (handler = "send" /\ IsLong) =>
        /\ Len(Sends) <= Len(parts)
        /\ \A k \in 1..Len(Sends) :
              /\ Sends[k].idx = k - 1
              /\ Sends[k].payload = parts[k]
              /\ Sends[k].to = entity
        /\ pc = "send_part" => Len(Sends) = i
        /\ pc = "done" => (Len(Sends) = Len(parts) /\ status = "returned")

\* the first attempt failed, a later one was made all the same, and the
\* function has returned
C3_Witness ==
    /\ handler = "send" /\ IsLong /\ pc = "done" /\ status = "returned"
    /\ Len(Sends) >= 3
    /\ ~Sends[1].ok /\ ~Sends[2].ok /\ Sends[3].ok

\* C4 as claimed: between the attempt on a part and the attempt on the next
\* part there is always a 1-unit sleep, whether the first attempt succeeded or
\* failed, and no sleep follows the attempt on the last part.
C4_DelayBetweenAllParts ==
    (handler = "send" /\ IsLong) =>
        /\ \A k \in 1..(Len(trace) - 1) :
              trace[k].op = "send" =>
                  (trace[k + 1].op = "sleep" /\ trace[k + 1].secs = 1)
        /\ pc = "done" => trace[Len(trace)].op = "send"

-----------------------------------------------------------------------------
(* Properties of the two handlers (Spec) *)

IsHandler == handler \in {"post", "command"}

Fetches == SelectSeq(trace, LAMBDA c : c.op = "fetch")
Translates == SelectSeq(trace, LAMBDA c : c.op = "translate")
TitleCalls == SelectSeq(trace, LAMBDA c : c.op = "translate" /\ c.what = "title")
BodyCalls == SelectSeq(trace, LAMBDA c : c.op = "translate" /\ c.what = "body")
Replies == SelectSeq(trace, LAMBDA c : c.op = "reply")

\* the fetch, the translation calls and the sends, in the order made
Pipeline == SelectSeq(trace, LAMBDA c : c.op \in {"fetch", "translate", "send"})

\* the handler is inside send_telegram_message_telethon
InSend == pc \in {"send_enter", "send_single", "send_part", "sleep"}

\* C5: in both handlers, once the body translation has returned None or the
\* empty string, the message is never formatted and no send_message call is
\* made for the event, whatever the title translation returned.
C5_NoSendAfterFailedBody ==
    (IsHandler /\ BodyCalls # <<>> /\ ~Truthy(BodyCalls[1].ret)) =>
        /\ Sends = <<>>
        /\ ~InSend
        /\ text = <<>>
        /\ pc \in {"done", "cmd_reply_translate"}

\* the title was translated, the body translation came back empty, and the
\* handler is done
C5_Witness ==
    /\ IsHandler /\ pc = "done"
    /\ TitleCalls # <<>> /\ Truthy(translated_title_english)
    /\ BodyCalls # <<>> /\ BodyCalls[1].ret = <<>>

\* C6 as claimed: once any translation call of the event, title or body, has
\* returned None, the event is aborted: nothing is sent for it.
C6_AnyTranslationFailureAborts ==
    (IsHandler /\ \E k \in 1..Len(Translates) : Translates[k].ret = None) =>
        (Sends = <<>> /\ ~InSend)

\* the message without a title line
UntitledMessage(tb, u) ==
    TCat(TCat(tb, BLANK_LINE), TCat(TCat(A_OPEN, EscapeUrl(u)), A_CLOSE))

\* C6 as amended: a body translation that returned None aborts the event and
\* no part is sent; a title translation that returned None does not abort it:
\* the handler goes on to the body translation and, when that one yields a
\* text, hands send_telegram_message_telethon the message without a title line.
C6_OnlyBodyFailureAborts ==
    IsHandler =>
        /\ (BodyCalls # <<>> /\ BodyCalls[1].ret = None) =>
              (Sends = <<>> /\ ~InSend /\ pc \in {"done", "cmd_reply_translate"})
        /\ (TitleCalls # <<>> /\ TitleCalls[1].ret = None) =>
              /\ BodyCalls = <<>> => pc \in {"post_body", "cmd_body"}
              /\ (BodyCalls # <<>> /\ Truthy(BodyCalls[1].ret)) =>
                    /\ text = UntitledMessage(BodyCalls[1].ret, url)
                    /\ InSend \/ Sends # <<>>

\* the title translation failed, the body translation did not, and a part went out
C6_Witness ==
    /\ IsHandler /\ pc = "done"
    /\ TitleCalls # <<>> /\ TitleCalls[1].ret = None
    /\ BodyCalls # <<>> /\ Truthy(BodyCalls[1].ret)
    /\ \E k \in 1..Len(Sends) : Sends[k].ok

\* the HTTP exchange failed: session.get raised, or the status is not 200
FetchFailed == response.raises \/ response.status # HTTP_OK

\* C7: when the fetch raised or met a status other than 200, fetch_article_text
\* returned (None, None); and the channel-post handler then made no other call
\* than the fetch (no translation, no send, no reply) and returned normally.
C7_FailedFetchIsSilent ==
    (IsHandler /\ Fetches # <<>> /\ FetchFailed) =>
        /\ dhivehi_title = None
        /\ article_text_dhivehi = None
        /\ ~Fetches[1].ok
        /\ handler = "post" =>
              /\ Len(trace) = 1
              /\ pc = "done"
              /\ status = "returned"

\* a 404 whose page held a title and a long enough body
C7_Witness ==
    /\ handler = "post" /\ pc = "done"
    /\ Fetches # <<>>
    /\ response.status = 404
    /\ Truthy(response.title)
    /\ response.body # None /\ TLen(response.body) >= MIN_BODY_POST

\* the stage of a call: fetch, title translation, body translation, send
Rank(c) ==
    IF c.op = "fetch" THEN 1
    ELSE IF c.op = "translate" /\ c.what = "title" THEN 2
    ELSE IF c.op = "translate" THEN 3
    ELSE 4

\* the minimum body length of the handler that runs
MinBody == IF handler = "post" THEN 50 ELSE 30

\* C8: the fetch, the translation calls and the sends of an event are made in
\* stage order, the fetch first; fetch, title translation and body translation
\* happen at most once each; a send is preceded by a body translation that
\* yielded a text; and an aborting outcome (a fetch without a long enough
\* body, a body translation without a text, a reply that raised) is the last
\* call of the event.
C8_StagesInOrderOnce ==
    IsHandler =>
        /\ \A j, k \in 1..Len(Pipeline) :
              j < k => /\ Rank(Pipeline[j]) <= Rank(Pipeline[k])
                       /\ Rank(Pipeline[j]) = Rank(Pipeline[k]) => Rank(Pipeline[j]) = 4
        /\ Pipeline # <<>> => Pipeline[1].op = "fetch"
        /\ (Sends # <<>> \/ InSend) => (BodyCalls # <<>> /\ Truthy(BodyCalls[1].ret))
        /\ (Fetches # <<>> /\ (article_text_dhivehi = None
                                \/ TLen(article_text_dhivehi) < MinBody)) =>
              Len(Pipeline) = 1
        /\ (BodyCalls # <<>> /\ ~Truthy(BodyCalls[1].ret)) =>
              Pipeline[Len(Pipeline)].what = "body"
        /\ \A k \in 1..Len(trace) :
              (trace[k].op = "reply" /\ ~trace[k].ok) => (k = Len(trace) /\ pc = "done")

\* all four stages happened, the send stage with two parts or more
C8_Witness ==
    /\ IsHandler /\ pc = "done"
    /\ Fetches # <<>> /\ TitleCalls # <<>> /\ BodyCalls # <<>>
    /\ Len(Sends) >= 2

\* C9 as claimed: when the /translate handler is done, the calls it made are
\* either the usage reply alone (no URL in the argument), or the
\* acknowledgement first, then the fetch, and then exactly one of: the
\* extraction-failure reply, the translation-failure reply, the message parts.
C9_ExactlyOneReplySequence ==
    (handler = "command" /\ pc = "done") =>
        IF url = None
        THEN /\ Len(trace) = 1
             /\ trace[1].op = "reply" /\ trace[1].msg = USAGE_REPLY
        ELSE /\ Len(trace) >= 2
             /\ trace[1].op = "reply" /\ trace[1].msg = AckReply(url)
             /\ trace[2].op = "fetch"
             /\ Len(Replies) <= 2
             /\ ExtractFailReply(url) # TranslateFailReply(url)
             /\ \/ /\ Len(Replies) = 2 /\ Replies[2].msg = ExtractFailReply(url)
                   /\ Translates = <<>> /\ Sends = <<>>
                \/ /\ Len(Replies) = 2 /\ Replies[2].msg = TranslateFailReply(url)
                   /\ BodyCalls # <<>> /\ Sends = <<>>
                \/ /\ Len(Replies) = 1
                   /\ Sends # <<>>

\* C10 as claimed: whatever the outcomes of the external calls, a handler
\* that is done has returned normally; and the channel-post handler never
\* replies and sends nothing unless the body translation yielded a text.
C10_NothingPropagates ==
    (IsHandler /\ pc = "done") =>
        /\ status = "returned"
        /\ handler = "post" =>
              /\ Replies = <<>>
              /\ Sends # <<>> => Truthy(translation_english_body)

-----------------------------------------------------------------------------
(* Properties of translate_text (SpecTranslate) *)

\* translate_text has returned or raised
TranslateDone == handler = "translate" /\ pc = "done"

\* the provider the configuration selects and has a client for, or "" when
\* there is none
SelectedProvider ==
    IF config.provider = "openai" /\ config.openai_key THEN "openai"
    ELSE IF config.provider = "anthropic" /\ config.anthropic_key THEN "anthropic"
    ELSE ""

\* C11: translate_text never raises and calls a provider at most once, the
\* selected one; when the call raised or its response was malformed, or no
\* provider is configured or the selection is invalid, it returns None, and
\* no further call is made.
C11_OneCallNeverRaises ==
    handler = "translate" =>
        /\ status # "raised"
        /\ Len(trace) <= 1
        /\ \A k \in 1..Len(trace) :
              /\ trace[k].op = "translate"
              /\ trace[k].to = config.provider
              /\ trace[k].to = SelectedProvider
              /\ trace[k].payload = dhivehi_text
        /\ pc = "done" =>
              /\ status = "returned"
              /\ SelectedProvider = "" => (trace = <<>> /\ translation = None)
              /\ translation # None => (Len(trace) = 1 /\ trace[1].ret = translation)
              /\ (trace # <<>> /\ trace[1].msg \in {<<"error">>, <<"malformed">>}) =>
                    translation = None
        /\ pc = "translate_await" => trace = <<>>

\* a configured provider was called once for a text and None came back
C11_Witness ==
    /\ TranslateDone /\ status = "returned"
    /\ Truthy(dhivehi_text)
    /\ Len(trace) = 1 /\ trace[1].to = "anthropic" /\ trace[1].msg = <<"malformed">>
    /\ translation = None

\* C12: for an empty or absent text, in either role and under every
\* configuration, translate_text makes no provider call and returns None.
C12_EmptyInputNoCall ==
    (handler = "translate" /\ (dhivehi_text = None \/ dhivehi_text = <<>>)) =>
        /\ trace = <<>>
        /\ pc # "translate_await"
        /\ pc = "done" => (translation = None /\ status = "returned")

\* the empty string was given, as a title, under a configured provider
C12_Witness ==
    /\ TranslateDone
    /\ dhivehi_text = <<>> /\ is_title
    /\ SelectedProvider = "openai"
    /\ translation = None /\ trace = <<>>

-----------------------------------------------------------------------------
(* Further properties of the two handlers (Spec) *)

\* C13: once the fetch has returned a body that is None or shorter than the
\* handler's minimum (50 for the channel post, 30 for /translate), even from a
\* 200 page with a title, no translation call is made and nothing is sent; a
\* body of exactly the minimum length is not an extraction failure: the
\* handler goes on to the translation calls.
C13_ShortBodyIsExtractionFailure ==
    (IsHandler /\ Fetches # <<>>) =>
        /\ (article_text_dhivehi = None \/ TLen(article_text_dhivehi) < MinBody) =>
              /\ Translates = <<>> /\ Sends = <<>> /\ ~InSend
              /\ pc \in {"done", "cmd_reply_extract"}
              /\ text = <<>>
        /\ (article_text_dhivehi # None /\ TLen(article_text_dhivehi) = MinBody) =>
              /\ pc # "cmd_reply_extract"
              /\ \A k \in 1..Len(Replies) : Replies[k].what # "extract_fail"
              /\ pc = "done" => BodyCalls # <<>>

\* a 200 page with a title and a body of 49 characters ended the channel-post
\* handler after the fetch
C13_Witness ==
    /\ handler = "post" /\ pc = "done"
    /\ Fetches # <<>> /\ Fetches[1].ok
    /\ response.status = 200 /\ Truthy(dhivehi_title)
    /\ article_text_dhivehi # None /\ TLen(article_text_dhivehi) = 49
    /\ Len(trace) = 1

NoUrlMessages ==
    { None,
      Str(<<"h", "e", "l", "l", "o">>),
      Str(<<"h", "t", "t", "p", "s", ":", "/", "/", " ", "x">>),
      Str(<<"/", "t", "r", "a", "n", "s", "l", "a", "t", "e">>),
      Str(<<"/", "t", "r", "a", "n", "s", "l", "a", "t", "e", " ", "h", "e", "l", "l", "o">>) }

\* a text with two URLs, and the first of them
TwoUrlMessage ==
    Str(<<"n", "e", "w", " ", "h", "t", "t", "p", "s", ":", "/", "/", "x", "/", "y", "\n", "h", "t", "t", "p", ":", "/", "/", "z", "/", "?", "a", "&", "b", "<", "c", ">">>)
TwoUrlFirst == Str(<<"h", "t", "t", "p", "s", ":", "/", "/", "x", "/", "y">>)

\* C15: a channel post whose text holds no URL is ignored: the handler makes
\* no call at all (no fetch, translation, send or reply) and returns
\* normally; for a text with several URLs the one URL fetched, and linked in
\* the message, is the first match.
C15_NoUrlIgnoredFirstUrlWins ==
    (handler = "post" /\ pc # "post_start") =>
        /\ message \in NoUrlMessages =>
              /\ trace = <<>> /\ pc = "done" /\ status = "returned"
              /\ url = None
        /\ message = TwoUrlMessage =>
              /\ url = TwoUrlFirst
              /\ Len(Fetches) <= 1
              /\ \A k \in 1..Len(Fetches) : Fetches[k].payload = TwoUrlFirst
              /\ (InSend \/ Sends # <<>>) =>
                    text = FormatMessage(translated_title_english,
                                         translation_english_body, TwoUrlFirst)

\* the post with two URLs was delivered
C15_Witness ==
    /\ handler = "post" /\ pc = "done"
    /\ message = TwoUrlMessage
    /\ \E k \in 1..Len(Sends) : Sends[k].ok

-----------------------------------------------------------------------------
(* Properties of main (SpecMain) *)

\* the configuration holds everything required: the four Telegram values, one
\* of the two providers, and the key of that provider
ConfigComplete ==
    /\ config.common_vars = <<TRUE, TRUE, TRUE, TRUE>>
    /\ \/ (config.provider = "openai" /\ config.openai_key)
       \/ (config.provider = "anthropic" /\ config.anthropic_key)

\* C17: when the API id, the API hash, the source channel, the target channel
\* or the API key of the selected provider is missing, or the provider is
\* neither openai nor anthropic, main returns from its environment check: the
\* client is never constructed or connected and no handler is registered.
C17_BadConfigNeverConnects ==
    (handler = "main" /\ ~ConfigComplete) =>
        /\ client = "none"
        /\ registered = {}
        /\ pc \in {"main_check", "done"}
        /\ pc = "done" => status = "returned"

\* main has returned for a provider that is not one of the two, every value
\* and both keys being set
C17_Witness ==
    /\ handler = "main" /\ pc = "done" /\ status = "returned"
    /\ config.provider = "deepl"
    /\ config.common_vars = <<TRUE, TRUE, TRUE, TRUE>>
    /\ config.openai_key /\ config.anthropic_key
    /\ client = "none"

-----------------------------------------------------------------------------
(* Properties of fetch_article_text (SpecFetch) *)

\* the page was fetched with status 200 and its body has been extracted
Extracted ==
    /\ handler = "fetch" /\ ~response.raises /\ response.status = 200
    /\ pc \in {"fetch_finish", "done"}

\* the walk has been made
Walked ==
    /\ handler = "fetch" /\ ~response.raises /\ response.status = 200
    /\ pc \in {"fetch_fallback", "fetch_finish", "done"}

\* the index of the marker comment, or 0
MarkerAt ==
    IF \E k \in 1..Len(soup.nodes) : soup.nodes[k].name = "comment"
    THEN CHOOSE k \in 1..Len(soup.nodes) :
            /\ soup.nodes[k].name = "comment"
            /\ \A j \in 1..(k - 1) : soup.nodes[j].name # "comment"
    ELSE 0

\* the index of the first <article>, or 0
ArticleAt ==
    IF \E k \in 1..Len(soup.nodes) : soup.nodes[k].name = "article"
    THEN CHOOSE k \in 1..Len(soup.nodes) :
            /\ soup.nodes[k].name = "article"
            /\ \A j \in 1..(k - 1) : soup.nodes[j].name # "article"
    ELSE 0

\* the marker walk gave no text
WalkGaveNothing == JoinWith(article_texts, <<R(NL, 2)>>) = <<>>

\* C18 as claimed: extraction never raises, and when the page has no marker
\* comment or the walk from it collected nothing, the extracted body is the
\* text of the first <article> when that is not empty, and otherwise (no
\* <article>, or an <article> without text) the text of the body, the text of
\* the whole document when there is no body.
C18_FirstNonEmptyLayerWins ==
    /\ handler = "fetch" => status # "raised"
    /\ (Extracted /\ WalkGaveNothing) =>
          extracted_body_text =
              IF ArticleAt # 0 /\ GetText(soup.nodes, ArticleAt) # <<>>
              THEN GetText(soup.nodes, ArticleAt)
              ELSE BodyText(soup)

\* the index of the first div after the marker whose classes are one of the
\* given sets, or one past the last node
DividerAfterMarker(classes) ==
    IF \E k \in (MarkerAt + 1)..Len(soup.nodes) :
          soup.nodes[k].name = "div" /\ soup.nodes[k].class \in classes
    THEN CHOOSE k \in (MarkerAt + 1)..Len(soup.nodes) :
            /\ soup.nodes[k].name = "div" /\ soup.nodes[k].class \in classes
            /\ \A j \in (MarkerAt + 1)..(k - 1) :
                  ~(soup.nodes[j].name = "div" /\ soup.nodes[j].class \in classes)
    ELSE Len(soup.nodes) + 1

\* the texts of the paragraphs of an accepted class combination that stand
\* after the marker and before node d, in document order
ParagraphsBetweenMarkerAnd(d) ==
    LET at == SelectSeq([k \in 1..Len(soup.nodes) |-> k],
                        LAMBDA k : /\ k > MarkerAt /\ k < d
                                   /\ soup.nodes[k].name = "p"
                                   /\ soup.nodes[k].class \in {P_FASEYHA, P_WIDE})
    IN  [j \in 1..Len(at) |-> soup.nodes[at[j]].text]

\* C19 as claimed: with the marker present and an accepted paragraph between
\* it and the divider, the extracted body is the texts of the accepted
\* paragraphs after the marker and before the first 'hidden lg:block ml-10'
\* div, joined in document order.
C19_BodyUpToMlDivider ==
    (Walked /\ MarkerAt # 0
        /\ JoinWith(ParagraphsBetweenMarkerAnd(DividerAfterMarker({DIV_ML})), <<R(NL, 2)>>) # <<>>) =>
        /\ article_texts = ParagraphsBetweenMarkerAnd(DividerAfterMarker({DIV_ML}))
        /\ extracted_body_text =
              JoinWith(ParagraphsBetweenMarkerAnd(DividerAfterMarker({DIV_ML})), <<R(NL, 2)>>)

\* C19 as amended: the divider is the first div after the marker with the
\* classes hidden, lg:block and either ml-10 or m1-10.  With the marker present
\* and the accepted paragraphs between the marker and that divider holding
\* some text, the extracted body text (before post-processing) is exactly
\* their texts joined by blank lines in document order: no paragraph before
\* the marker, at or after the divider, or of another class contributes.
C19_BodyUpToEitherDivider ==
    (Walked /\ MarkerAt # 0) =>
        /\ article_texts = ParagraphsBetweenMarkerAnd(DividerAfterMarker({DIV_ML, DIV_M1}))
        /\ JoinWith(article_texts, <<R(NL, 2)>>) # <<>> =>
              extracted_body_text = JoinWith(article_texts, <<R(NL, 2)>>)

\* the marker, a paragraph that was collected, the m1-10 divider and an
\* accepted paragraph after it that was left out
C19_Witness ==
    /\ Walked /\ pc = "done"
    /\ Len(soup.nodes) = 4
    /\ soup.nodes[1].name = "comment"
    /\ soup.nodes[2].name = "p" /\ soup.nodes[2].class = P_WIDE
    /\ soup.nodes[3].class = DIV_M1
    /\ soup.nodes[4].name = "p" /\ soup.nodes[4].class = P_FASEYHA
    /\ extracted_body_text = soup.nodes[2].text
    /\ article_text_dhivehi = <<R("b", 2)>>

\* C20: when fetch_article_text is done with a page of status 200, the result
\* is (None, None) exactly when neither the title found nor the post-processed
\* body holds any text; otherwise it is the title and the body as found, one
\* of them at least holding text.
C20_FailureOnlyIfBothEmpty ==
    (handler = "fetch" /\ pc = "done" /\ ~response.raises /\ response.status = 200) =>
        /\ response.title = ExtractTitle(soup.h1s)
        /\ response.body = final_body_text
        /\ (dhivehi_title = None /\ article_text_dhivehi = None)
              <=> (response.title \in {None, <<>>} /\ response.body \in {None, <<>>})
        /\ ~(dhivehi_title = None /\ article_text_dhivehi = None) =>
              /\ dhivehi_title = response.title
              /\ article_text_dhivehi = response.body
              /\ (dhivehi_title \notin {None, <<>>} \/ article_text_dhivehi \notin {None, <<>>})

\* a title without any body text was returned as found
C20_Witness ==
    /\ handler = "fetch" /\ pc = "done" /\ response.status = 200
    /\ dhivehi_title = <<R("t", 3)>>
    /\ article_text_dhivehi = None
    /\ Len(soup.h1s) = 2

-----------------------------------------------------------------------------
(* Properties of two interleaved invocations (SpecPair) *)

\* the parts send_telegram_message_telethon makes of a text
PartsOf(t) ==
    IF TLen(t) <= MAX_MESSAGE_LENGTH THEN <<t>>
    ELSE LET split == SplitParts(t)
         IN  [k \in 1..Len(split) |-> split[k].part]

\* the calls of one kind in the trace of an invocation
CallsOf(f, op) == SelectSeq(f.trace, LAMBDA c : c.op = op)

\* What an invocation of handle_new_post does when it runs alone, as a
\* condition on its own locals and calls: the URL is the first of its own
\* message; it fetches that URL once; it translates the title and the body that
\* its own fetch returned; the message it delivers is built from its own
\* translations and URL; and its sends are the parts of that message, in
\* order, to the target; when it is done it has either aborted with no send
\* or attempted every part.
RunsAsAlone(f) ==
    LET sends == CallsOf(f, "send")
        fetches == CallsOf(f, "fetch")
        translates == CallsOf(f, "translate")
        delivering == f.pc \in {"send_enter", "send_single", "send_part", "sleep"}
    IN  /\ f.url \in {None, FindAll(f.message)[1]}
        /\ Len(fetches) <= 1
        /\ \A k \in 1..Len(fetches) : fetches[k].payload = FindAll(f.message)[1]
        /\ \A k \in 1..Len(translates) :
              /\ translates[k].what = "title" =>
                    (translates[k].payload = f.dhivehi_title
                     /\ translates[k].ret = f.translated_title_english)
              /\ translates[k].what = "body" =>
                    (translates[k].payload = f.article_text_dhivehi
                     /\ translates[k].ret = f.translation_english_body)
        /\ (delivering \/ sends # <<>>) =>
              /\ f.text = FormatMessage(f.translated_title_english,
                                        f.translation_english_body,
                                        FindAll(f.message)[1])
              /\ f.entity = "target"
              /\ \E expected \in {PartsOf(f.text)} :
                    /\ Len(sends) <= Len(expected)
                    /\ \A k \in 1..Len(sends) :
                          /\ sends[k].payload = expected[k]
                          /\ sends[k].to = "target"
                    /\ f.pc = "send_part" =>
                          (f.i = Len(sends) /\ f.parts = expected)
                    /\ f.pc = "done" => Len(sends) = Len(expected)
        /\ f.pc = "done" =>
              /\ f.status = "returned"
              /\ ~Truthy(f.translation_english_body) => sends = <<>>
              /\ Truthy(f.translation_english_body) => sends # <<>>

\* C16: with two invocations of handle_new_post interleaved at their awaits
\* in every possible way, each of them does what it does alone: its fetch, its
\* translations, its message and the parts it sends, in chunk order, come from
\* its own event and its own calls only, and its outcome (aborted without a
\* send, or every part attempted) is its own.
C16_InterleavedAsAlone ==
    handler = "post" /\ other.handler = "post" =>
        RunsAsAlone(Frame) /\ RunsAsAlone(other)

\* both invocations are in the middle of delivering a message of three parts,
\* each having sent its first part
C16_Witness ==
    /\ handler = "post" /\ other.handler = "post"
    /\ pc = "send_part" /\ i = 1 /\ Len(parts) = 3
    /\ other.pc = "send_part" /\ other.i = 1 /\ Len(other.parts) = 3
    /\ url # other.url

-----------------------------------------------------------------------------
(* Where the splitting loop cuts (SpecSend) *)

RECURSIVE PartStart(_, _, _)
\* current_pos when part k was appended: past the earlier parts and the
\* newlines dropped after them
PartStart(ps, cs, k) ==
    IF k <= 1 THEN 0
    ELSE PartStart(ps, cs, k - 1) + TLen(ps[k - 1])
             + (IF cs[k - 1] = "newline" THEN 1 ELSE 0)

\* some character of t is a newline
HasNewline(t) == \E j \in 1..Len(t) : t[j].c = NL

\* part k, which started at p, ends at the last newline of the window that
\* starts at p, and that newline is dropped
EndsAtLastNewline(k, p) ==
    LET len == TLen(parts[k]) IN
    /\ cuts[k] = "newline"
    /\ parts[k] = TSlice(text, p, p + len)
    /\ len < MAX_MESSAGE_LENGTH
    /\ CharAt(text, p + len) = NL
    /\ ~HasNewline(TSlice(text, p + len + 1, p + MAX_MESSAGE_LENGTH))

\* part k, which started at p, is the whole window of MAX_MESSAGE_LENGTH
\* characters
IsHardCut(k, p) ==
    /\ cuts[k] = "hard"
    /\ TLen(parts[k]) = MAX_MESSAGE_LENGTH
    /\ parts[k] = TSlice(text, p, p + MAX_MESSAGE_LENGTH)

\* the loop has run on a text longer than MAX_MESSAGE_LENGTH
SplitDone == handler = "send" /\ IsLong /\ pc # "send_enter"

\* C21 as stated: every non-final part ends at the last newline of its window
\* of MAX_MESSAGE_LENGTH characters whenever that window holds a newline at
\* all, and is a hard cut of MAX_MESSAGE_LENGTH characters only when the window
\* holds none.
C21_NewlineInWindowIsTheCut ==
    SplitDone =>
        \A k \in 1..(Len(parts) - 1) :
            \E p \in {PartStart(parts, cuts, k)} :
                IF HasNewline(TSlice(text, p, p + MAX_MESSAGE_LENGTH))
                THEN EndsAtLastNewline(k, p)
                ELSE IsHardCut(k, p)

\* C21 amended: every non-final part ends at the last newline of its window
\* whenever the window holds a newline after its first character, and is a
\* hard cut of MAX_MESSAGE_LENGTH characters otherwise, that is when the
\* window holds no newline or its only newline is its first character.
C21_NewlinePastStartIsTheCut ==
    SplitDone =>
        \A k \in 1..(Len(parts) - 1) :
            \E p \in {PartStart(parts, cuts, k)} :
                IF HasNewline(TSlice(text, p + 1, p + MAX_MESSAGE_LENGTH))
                THEN EndsAtLastNewline(k, p)
                ELSE IsHardCut(k, p)

\* a text was split where one window began with its only newline and was
\* cut hard, and another part ended at a newline
C21_Witness ==
    /\ SplitDone /\ pc = "done"
    /\ \E k \in 1..(Len(parts) - 1) :
          \E p \in {PartStart(parts, cuts, k)} :
              /\ CharAt(text, p) = NL
              /\ ~HasNewline(TSlice(text, p + 1, p + MAX_MESSAGE_LENGTH))
              /\ IsHardCut(k, p)
    /\ \E k \in 1..(Len(parts) - 1) :
          EndsAtLastNewline(k, PartStart(parts, cuts, k))

\* C22: the splitting loop ends on every text longer than MAX_MESSAGE_LENGTH:
\* each iteration appended a part of at least one character and moved the
\* current position forward, also where a newline sat at the current position,
\* so there are at most len(text) parts, and every part handed to send_message
\* holds at least one character.
C22_LoopAdvancesNoEmptyPart ==
    SplitDone =>
        /\ \A k \in 1..Len(parts) : TLen(parts[k]) >= 1
        /\ \A k \in 1..(Len(parts) - 1) :
              PartStart(parts, cuts, k + 1) > PartStart(parts, cuts, k)
        /\ PartStart(parts, cuts, Len(parts)) < TLen(text)
        /\ Len(parts) <= TLen(text)
        /\ \A k \in 1..Len(Sends) : TLen(Sends[k].payload) >= 1

\* every part of a split was sent, and one iteration of the loop had started
\* with a newline at the current position
C22_Witness ==
    /\ SplitDone /\ pc = "done"
    /\ Len(Sends) = Len(parts)
    /\ \E k \in 1..(Len(parts) - 1) :
          CharAt(text, PartStart(parts, cuts, k)) = NL

-----------------------------------------------------------------------------
(* Properties of the two registrations (SpecDispatch) *)

\* the invocation of handle_new_post, running or suspended
PostFrame == IF handler = "post" THEN Frame ELSE other

\* the invocation of manual_translate_handler, running or suspended
CommandFrame == IF handler = "command" THEN Frame ELSE other

\* the message is a /translate command that carries a URL
CommandWithUrl ==
    PatternFilter(message) /\ FindAll(TStrip(PatternGroup(message))) # <<>>

\* C23: a message posted in the source channel that is also a /translate
\* command with a URL starts both handlers on the same event: each of them
\* takes the same URL, fetches it once on its own and translates what its own
\* fetch returned; handle_new_post sends to the target only, and
\* manual_translate_handler replies and sends to the chat of the message only;
\* neither is held back because the other one runs.
C23_BothHandlersRun ==
    (pc # "dispatch" /\ chat = "source" /\ CommandWithUrl) =>
        \E p \in {PostFrame} : \E c \in {CommandFrame} : \E u \in {FindAll(message)[1]} :
            /\ p.handler = "post" /\ c.handler = "command"
            /\ p.message = message /\ c.message = message
            /\ p.chat = chat /\ c.chat = chat
            /\ \A f \in {p, c} :
                  /\ f.url \in {None, u}
                  /\ f.pc \notin {"post_start", "cmd_start"} => f.url = u
                  /\ Len(CallsOf(f, "fetch")) <= 1
                  /\ \A k \in 1..Len(CallsOf(f, "fetch")) :
                        CallsOf(f, "fetch")[k].payload = u
                  /\ (f.pc = "done" /\ f.status = "returned") =>
                        Len(CallsOf(f, "fetch")) = 1
                  /\ \A k \in 1..Len(CallsOf(f, "translate")) :
                        CallsOf(f, "translate")[k].payload
                            \in {f.dhivehi_title, f.article_text_dhivehi}
                  /\ (f.pc = "done" /\ Truthy(f.translation_english_body)) =>
                        CallsOf(f, "send") # <<>>
            /\ \A k \in 1..Len(CallsOf(p, "send")) : CallsOf(p, "send")[k].to = "target"
            /\ CallsOf(p, "reply") = <<>>
            /\ \A k \in 1..Len(CallsOf(c, "send")) : CallsOf(c, "send")[k].to = chat
            /\ \A k \in 1..Len(CallsOf(c, "reply")) : CallsOf(c, "reply")[k].to = chat
            /\ c.pc \notin {"cmd_start", "cmd_reply_ack"} => CallsOf(c, "reply") # <<>>

\* one message of the source channel was handled to the end by both handlers:
\* both fetched its URL, both translated, one delivered to the target and the
\* other to the source channel
C23_Witness ==
    /\ chat = "source" /\ CommandWithUrl
    /\ PostFrame.handler = "post" /\ CommandFrame.handler = "command"
    /\ PostFrame.pc = "done" /\ CommandFrame.pc = "done"
    /\ CallsOf(PostFrame, "fetch") # <<>> /\ CallsOf(CommandFrame, "fetch") # <<>>
    /\ CallsOf(PostFrame, "translate") # <<>> /\ CallsOf(CommandFrame, "translate") # <<>>
    /\ \E k \in 1..Len(CallsOf(PostFrame, "send")) :
          CallsOf(PostFrame, "send")[k].to = "target"
    /\ \E k \in 1..Len(CallsOf(CommandFrame, "send")) :
          CallsOf(CommandFrame, "send")[k].to = "source"

====
